---- MODULE Spec2Model ----
(***************************************************************************)
(* Model of the issue-relationship resolution of mcp-jira:                 *)
(*   utils/issue-relationships.ts  (src/unnamed/part_003)                  *)
(*   tools/jira/read-description.ts                                        *)
(*   utils/validation.ts           (src/unnamed/part_001)                  *)
(*   utils/formatters.ts           (src/unnamed/part_000)                  *)
(*                                                                         *)
(* JavaScript values are tagged records: [t |-> "undefined"],              *)
(* [t |-> "null"], [t |-> "string", s |-> <<chars>>],                      *)
(* [t |-> "array", items |-> <<...>>] and [t |-> "object", prop |-> ...].  *)
(* A string is a sequence of one-character strings, so that prefixes,      *)
(* substrings and splits are computed and not assumed.  A Cyrillic letter   *)
(* of the source is written as its transliteration after a tilde ("~g"),   *)
(* which keeps it distinct from the Latin letter.                          *)
(***************************************************************************)
EXTENDS Integers, Sequences, FiniteSets, TLC

VARIABLES
    jiraConfig,              \* the JiraConfig the handler was built with
    pc,                      \* where the invocation of the handler stands
    hIssue,                  \* readDescriptionHandler: const issue
    issue,                   \* getIssueStructure: const issue
    parentIssueWithSubtasks, \* getIssueStructure: let parentIssueWithSubtasks
    epicField,               \* getIssueStructure: let epicField
    structure,               \* getIssueStructure: const structure
    jqlQueries,              \* searchEpicStories: const jqlQueries
    jqlIdx,                  \* searchEpicStories: position of the for loop
    gis,                     \* the promise returned by getIssueStructure
    thrown,                  \* the error getIssueStructure rejected with
    calls,                   \* the remote calls issued so far, with outcome
    response,                \* what the handler resolved to
    fn,                      \* a function applied on its own: which one,
    arg,                     \*   its argument,
    result                   \*   and what it returned

vars == <<jiraConfig, pc, hIssue, issue, parentIssueWithSubtasks, epicField,
          structure, jqlQueries, jqlIdx, gis, thrown, calls, response,
          fn, arg, result>>

(***************************************************************************)
(* JavaScript values                                                       *)
(***************************************************************************)
Undefined == [t |-> "undefined"]
Null == [t |-> "null"]
Str(s) == [t |-> "string", s |-> s]
Arr(items) == [t |-> "array", items |-> items]
Obj(props) == [t |-> "object"] @@ props

\* ToBoolean: undefined, null and "" are falsy; objects, arrays and
\* non-empty strings are truthy.
Truthy(v) ==
    CASE v.t = "undefined" -> FALSE
      [] v.t = "null" -> FALSE
      [] v.t = "string" -> v.s # <<>>
      [] OTHER -> TRUE

Nullish(v) == v.t \in {"undefined", "null"}

\* v.name for a v that is not nullish (a missing property reads undefined).
Prop(v, name) == IF v.t = "object" /\ name \in DOMAIN v THEN v[name] ELSE Undefined

\* v?.name
OptProp(v, name) == IF Nullish(v) THEN Undefined ELSE Prop(v, name)

\* a || b
OrElse(a, b) == IF Truthy(a) THEN a ELSE b

IsArray(v) == v.t = "array"

\* `${v}` for the values interpolated by the source.
Interpolate(v) ==
    CASE v.t = "string" -> v.s
      [] v.t = "undefined" -> <<"u", "n", "d", "e", "f", "i", "n", "e", "d">>
      [] v.t = "null" -> <<"n", "u", "l", "l">>
      [] OTHER -> <<"[", "o", "b", "j", "e", "c", "t", "]">>

(***************************************************************************)
(* Strings                                                                 *)
(***************************************************************************)
HasPrefix(s, p) == Len(s) >= Len(p) /\ SubSeq(s, 1, Len(p)) = p

\* s.includes(sub)
Includes(s, sub) ==
    \E i \in 0..(Len(s) - Len(sub)) : SubSeq(s, i + 1, i + Len(sub)) = sub

\* s.split(sep)[0] for a one-character separator
SplitFirst(s, sep) ==
    IF \E i \in 1..Len(s) : s[i] = sep
    THEN LET i == CHOOSE j \in 1..Len(s) :
                      s[j] = sep /\ \A k \in 1..(j - 1) : s[k] # sep
         IN SubSeq(s, 1, i - 1)
    ELSE s

HttpPrefix == <<"h", "t", "t", "p", ":", "/", "/">>
HttpsPrefix == <<"h", "t", "t", "p", "s", ":", "/", "/">>
BrowsePath == <<"/", "b", "r", "o", "w", "s", "e", "/">>

(***************************************************************************)
(* issue-relationships.ts: createJiraUrl, convertToRelatedIssue            *)
(***************************************************************************)
\* host.replace(/^https?:\/\//, "")
\* mutant: only "https://" is taken off
StripProtocolHttpsOnly(host) ==
    IF HasPrefix(host, HttpsPrefix) THEN SubSeq(host, Len(HttpsPrefix) + 1, Len(host))
    ELSE host

StripProtocol(host) ==
    IF HasPrefix(host, HttpsPrefix) THEN SubSeq(host, Len(HttpsPrefix) + 1, Len(host))
    ELSE IF HasPrefix(host, HttpPrefix) THEN SubSeq(host, Len(HttpPrefix) + 1, Len(host))
    ELSE host

createJiraUrl(host, issueKey) ==
    HttpsPrefix \o StripProtocol(host) \o BrowsePath \o Interpolate(issueKey)

\* "Bez nazvaniya" and "Neizvestno" in Cyrillic letters
DefaultSummary ==
    Str(<<"~B", "~e", "~z", " ", "~n", "~a", "~z", "~v", "~a", "~n", "~i", "~ya">>)
DefaultStatus == Str(<<"~N", "~e", "~i", "~z", "~v", "~e", "~s", "~t", "~n", "~o">>)
DefaultType == Str(<<"~N", "~e", "~i", "~z", "~v", "~e", "~s", "~t", "~n", "~o">>)

\* mutant: the defaults stand in for null and undefined only (?? for ||)
convertToRelatedIssueNullish(raw, host) ==
    LET orElse(v, d) == IF Nullish(v) THEN d ELSE v
    IN [key |-> Prop(raw, "key"),
        summary |-> orElse(OptProp(Prop(raw, "fields"), "summary"), DefaultSummary),
        status |-> orElse(OptProp(OptProp(Prop(raw, "fields"), "status"), "name"),
                          DefaultStatus),
        type |-> orElse(OptProp(OptProp(Prop(raw, "fields"), "issuetype"), "name"),
                        DefaultType),
        url |-> createJiraUrl(host, Prop(raw, "key")),
        priority |-> OptProp(OptProp(Prop(raw, "fields"), "priority"), "name")]

\* issue is not nullish here: issue.key throws on null and undefined, and the
\* callers below never pass one.
convertToRelatedIssue(raw, host) ==
    [key |-> Prop(raw, "key"),
     summary |-> OrElse(OptProp(Prop(raw, "fields"), "summary"), DefaultSummary),
     status |-> OrElse(OptProp(OptProp(Prop(raw, "fields"), "status"), "name"),
                       DefaultStatus),
     type |-> OrElse(OptProp(OptProp(Prop(raw, "fields"), "issuetype"), "name"),
                     DefaultType),
     url |-> createJiraUrl(host, Prop(raw, "key")),
     priority |-> OptProp(OptProp(Prop(raw, "fields"), "priority"), "name")]

\* xs.map(x => convertToRelatedIssue(x, host))
\* mutant: the list is normalized back to front
MapConvertReversed(xs, host) ==
    [i \in 1..Len(xs) |-> convertToRelatedIssue(xs[Len(xs) + 1 - i], host)]

MapConvert(xs, host) == [i \in 1..Len(xs) |-> convertToRelatedIssue(xs[i], host)]

(***************************************************************************)
(* issue-relationships.ts: findEpicField                                   *)
(***************************************************************************)
\* mutant: the generic "epic" field probed before the epic name field
epicFieldsEpicFirst ==
    <<"customfield_10014", "customfield_10006", "epic", "customfield_10007", "epicLink">>

epicFields ==
    <<"customfield_10014", "customfield_10006", "customfield_10007", "epic", "epicLink">>

\* fields[fieldName] throws a TypeError when fields is undefined or null.
findEpicFieldThrows(fields) == Nullish(fields)

RECURSIVE findEpicFieldFrom(_, _, _)
findEpicFieldFrom(names, fields, i) ==
    IF i > Len(names) THEN Null
    ELSE LET fieldName == names[i]
             fieldValue == Prop(fields, fieldName)
         IN IF Truthy(fieldValue)
            THEN IF fieldName = "customfield_10007" /\ fieldValue.t = "string"
                 THEN Obj([epicName |-> fieldValue])
                 ELSE fieldValue
            ELSE findEpicFieldFrom(names, fields, i + 1)

findEpicField(fields) == findEpicFieldFrom(epicFields, fields, 1)

(***************************************************************************)
(* The remote Jira: what each call may answer.  Lists are the order-       *)
(* preserving selections of a pool, so no list repeats an issue (Jira does *)
(* not) and the current issue may stand at any place of a list.            *)
(***************************************************************************)
MaxSubtasks == 2    \* length of the target's own subtasks list
MaxSiblings == 3    \* length of the re-fetched parent's subtasks list
MaxStories == 2     \* length of one story query's result

Digits == <<"0", "1", "2", "3", "4", "5", "6", "7", "8", "9">>

\* String(n) for a natural number n
RECURSIVE NumStr(_)
NumStr(n) == IF n < 10 THEN <<Digits[n + 1]>>
             ELSE NumStr(n \div 10) \o <<Digits[(n % 10) + 1]>>

KeyOf(project, n) == <<project, "-">> \o NumStr(n)

IssueKey == KeyOf("X", 1)     \* the issueKey the tool is called with
MovedKey == KeyOf("X", 9)     \* the key Jira answers with after a move
ParentKey == KeyOf("P", 1)
EpicKey == KeyOf("E", 5)
OtherEpicKey == KeyOf("E", 6)
EpicName == <<"N", "m">>

Display ==
    [summary |-> Str(<<"s">>),
     status |-> Obj([name |-> Str(<<"D", "o", "n", "e">>)]),
     issuetype |-> Obj([name |-> Str(<<"T">>)]),
     priority |-> Obj([name |-> Str(<<"H">>)])]

RawIssue(key, props) == Obj([key |-> Str(key), fields |-> Obj(props)])
RawBare(key) == Obj([key |-> Str(key)])       \* an issue without `fields`
EmptyObj == [t |-> "object"]

RECURSIVE Pick(_, _, _)
Pick(pool, S, i) ==
    IF i > Len(pool) THEN <<>>
    ELSE (IF i \in S THEN <<pool[i]>> ELSE <<>>) \o Pick(pool, S, i + 1)

Selections(pool, maxLen) ==
    {Pick(pool, S, 1) : S \in {T \in SUBSET (1..Len(pool)) : Cardinality(T) <= maxLen}}

\* error values: what a remote call rejects with, what a property read of
\* undefined throws
RemoteError == [t |-> "error", message |-> <<"Request failed with status code 404">>]
TypeError == [t |-> "error", message |-> <<"Cannot read properties of undefined">>]

\* the epic-link fields of an issue: none, a key string, two key strings, an
\* epic name, an embedded epic, an object with neither key nor name, an
\* empty string before a key, an object with both a key and a name
EmbeddedEpic == RawIssue(EpicKey, Display)
NamedEpic == Obj([key |-> Str(OtherEpicKey), epicName |-> Str(EpicName)])
TargetEpicProps ==
    {[project |-> Obj([key |-> Str(<<"X">>)])],
     [customfield_10014 |-> Str(EpicKey)],
     [customfield_10014 |-> Str(EpicKey), customfield_10006 |-> Str(OtherEpicKey)],
     [customfield_10007 |-> Str(EpicName)],
     [epic |-> EmbeddedEpic],
     [epicLink |-> EmptyObj],
     [customfield_10006 |-> Str(<<>>), epicLink |-> Str(OtherEpicKey)],
     [epicLink |-> NamedEpic]}
ParentEpicProps ==
    {[project |-> Obj([key |-> Str(<<"P">>)])],
     [customfield_10006 |-> Str(EpicKey)],
     [customfield_10007 |-> Str(EpicName), epic |-> EmbeddedEpic]}

ParentRef == RawIssue(ParentKey, [summary |-> Str(<<"p">>)])
ParentProps == {<<>>, <<ParentRef>>}          \* no parent, a parent reference

SubtaskPool == [i \in 1..(MaxSubtasks + 1) |->
                   IF i % 2 = 1 THEN RawIssue(KeyOf("X", i + 1), Display)
                   ELSE RawBare(KeyOf("X", i + 1))]
\* fields.subtasks: absent, or the first n subtasks
SubtaskProps ==
    {<<>>} \cup {<<Arr(SubSeq(SubtaskPool, 1, n))>> : n \in 1..MaxSubtasks}

TargetFields(par, sub, ep) ==
    Display @@ ep
      @@ (IF par = <<>> THEN <<>> ELSE [parent |-> par[1]])
      @@ (IF sub = <<>> THEN <<>> ELSE [subtasks |-> sub[1]])

\* Answers to the fetch of the target: under the requested key every
\* combination of parent, subtasks and epic fields, or no fields at all;
\* under another key (the issue was moved) a sample of them.
TargetPayloads ==
    {RawBare(IssueKey)}
    \cup {RawIssue(IssueKey, TargetFields(par, sub, ep)) :
            par \in ParentProps, sub \in SubtaskProps, ep \in TargetEpicProps}
    \cup {RawIssue(MovedKey, TargetFields(par, <<>>, ep)) :
            par \in ParentProps,
            ep \in {[project |-> Obj([key |-> Str(<<"X">>)])],
                    [customfield_10014 |-> Str(EpicKey)]}}

SiblingPool ==
    <<RawBare(KeyOf("X", 2)), RawIssue(IssueKey, Display), RawIssue(MovedKey, Display),
      RawIssue(KeyOf("X", 3), Display)>>
SiblingProps ==
    {<<>>} \cup {<<Arr(l)>> : l \in Selections(SiblingPool, MaxSiblings)}

ParentFields(sub, ep) == ep @@ (IF sub = <<>> THEN <<>> ELSE [subtasks |-> sub[1]])

\* Answers to the re-fetch of the parent: no fields; every subtasks list
\* without an epic field; every epic field with one subtasks list.
ParentPayloads ==
    {RawBare(ParentKey)}
    \cup {RawIssue(ParentKey, ParentFields(sub, [project |-> Obj([key |-> Str(<<"P">>)])])) :
            sub \in SiblingProps}
    \cup {RawIssue(ParentKey, ParentFields(<<Arr(SubSeq(SiblingPool, 1, 2))>>, ep)) :
            ep \in ParentEpicProps}

\* the epic fetched by key: a full issue, or a payload without a key
EpicPayloads == {RawIssue(EpicKey, Display), EmptyObj}

StoryPool ==
    <<RawIssue(KeyOf("S", 1), Display), RawIssue(IssueKey, Display),
      RawBare(MovedKey)>>
\* a search result {issues: [...]}; the name search may also answer without
\* `issues` (both reads of searchResults.issues share HasIssues below)
StoryResults ==
    {Obj([issues |-> Arr(l)]) : l \in Selections(StoryPool, MaxStories)}
EpicSearchResults ==
    {EmptyObj, Obj([issues |-> Arr(<<>>)]),
     Obj([issues |-> Arr(<<RawIssue(EpicKey, Display)>>)])}

\* what the handler's own fetch resolves to: an issue, one without fields, or
\* nothing at all (the handler tests !issue)
HandlerPayloads ==
    {RawIssue(IssueKey, Display @@ [description |-> Str(<<"d">>)]),
     RawBare(IssueKey), Null}

(***************************************************************************)
(* validation.ts: validateJiraConfig                                       *)
(***************************************************************************)
Whitespace == {" ", "\t", "\n", "\r"}
AtlassianNet == <<".", "a", "t", "l", "a", "s", "s", "i", "a", "n", ".", "n", "e", "t">>

\* /^[^\s@]+@[^\s@]+\.[^\s@]+$/.test(s)
emailRegexTest(s) ==
    \E i, j \in 1..Len(s) :
        /\ s[i] = "@" /\ s[j] = "."
        /\ 1 < i /\ i + 1 < j /\ j < Len(s)
        /\ \A k \in 1..Len(s) : k # i => s[k] \notin (Whitespace \cup {"@"})

MsgNoHost == Str(<<"JIRA_HOST environment variable is not set">>)
MsgNoUsername ==
    Str(<<"JIRA_USERNAME environment variable is not set (should be your email)">>)
MsgNoCredentials ==
    Str(<<"Either JIRA_PASSWORD or JIRA_API_TOKEN environment variable must be set">>)
MsgNoEmail ==
    Str(<<"For Atlassian Cloud, JIRA_USERNAME must be a valid email address when using API token">>)

\* mutant: the username is checked before the host
validateJiraConfigUsernameFirst(config) ==
    IF ~Truthy(config.username) THEN MsgNoUsername
    ELSE IF ~Truthy(config.host) THEN MsgNoHost
    ELSE IF ~Truthy(config.password) /\ ~Truthy(config.apiToken) THEN MsgNoCredentials
    ELSE IF /\ Truthy(config.apiToken)
            /\ Includes(config.host.s, AtlassianNet)
            /\ ~emailRegexTest(config.username.s)
         THEN MsgNoEmail
    ELSE Null

validateJiraConfig(config) ==
    IF ~Truthy(config.host) THEN MsgNoHost
    ELSE IF ~Truthy(config.username) THEN MsgNoUsername
    ELSE IF ~Truthy(config.password) /\ ~Truthy(config.apiToken) THEN MsgNoCredentials
    ELSE IF /\ Truthy(config.apiToken)
            /\ Includes(config.host.s, AtlassianNet)
            /\ ~emailRegexTest(config.username.s)
         THEN MsgNoEmail
    ELSE Null

(***************************************************************************)
(* issue-relationships.ts: getStatusIcon, formatIssueStructure             *)
(* formatters.ts: formatIssueDescription                                   *)
(* A text is the sequence of its pieces: the literals of the template      *)
(* strings, one piece each, and the characters of what is interpolated.    *)
(***************************************************************************)
UpperCase ==
    <<"A", "B", "C", "D", "E", "F", "G", "H", "I", "J", "K", "L", "M", "N", "O",
      "P", "Q", "R", "S", "T", "U", "V", "W", "X", "Y", "Z",
      "~A", "~B", "~V", "~G", "~D", "~E", "~Z", "~I", "~K", "~L", "~M", "~N",
      "~O", "~P", "~R", "~S", "~T", "~U", "~YA", "~YU", "~Y">>
LowerCase ==
    <<"a", "b", "c", "d", "e", "f", "g", "h", "i", "j", "k", "l", "m", "n", "o",
      "p", "q", "r", "s", "t", "u", "v", "w", "x", "y", "z",
      "~a", "~b", "~v", "~g", "~d", "~e", "~z", "~i", "~k", "~l", "~m", "~n",
      "~o", "~p", "~r", "~s", "~t", "~u", "~ya", "~yu", "~y">>

toLowerCase(s) ==
    [i \in 1..Len(s) |->
        IF \E k \in 1..Len(UpperCase) : UpperCase[k] = s[i]
        THEN LowerCase[CHOOSE k \in 1..Len(UpperCase) : UpperCase[k] = s[i]]
        ELSE s[i]]

KwGotovo == <<"~g", "~o", "~t", "~o", "~v", "~o">>
KwZakryt == <<"~z", "~a", "~k", "~r", "~y", "~t">>
KwDone == <<"d", "o", "n", "e">>
KwClosed == <<"c", "l", "o", "s", "e", "d">>
KwRabote == <<"~r", "~a", "~b", "~o", "~t", "~e">>
KwProgress == <<"p", "r", "o", "g", "r", "e", "s", "s">>
KwRazrabot == <<"~r", "~a", "~z", "~r", "~a", "~b", "~o", "~t">>
KwReview == <<"r", "e", "v", "i", "e", "w">>
KwRevyu == <<"~r", "~e", "~v", "~yu">>
KwRelease == <<"r", "e", "l", "e", "a", "s", "e">>
KwReliz == <<"~r", "~e", "~l", "~i", "~z">>
KwTest == <<"t", "e", "s", "t">>
KwTestCyr == <<"~t", "~e", "~s", "~t">>

\* mutant: the test keywords are looked for before all the others
getStatusIconTestFirst(status) ==
    LET lowerStatus == toLowerCase(status.s)
        has(kw) == Includes(lowerStatus, kw)
    IN IF has(KwTest) \/ has(KwTestCyr) THEN "icon:testtube"
       ELSE IF has(KwGotovo) \/ has(KwZakryt) \/ has(KwDone) \/ has(KwClosed)
       THEN "icon:check"
       ELSE IF has(KwRabote) \/ has(KwProgress) \/ has(KwRazrabot) THEN "icon:cycle"
       ELSE IF has(KwReview) \/ has(KwRevyu) THEN "icon:eye"
       ELSE IF has(KwRelease) \/ has(KwReliz) THEN "icon:rocket"
       ELSE "icon:document"

\* status is a string value here
getStatusIcon(status) ==
    LET lowerStatus == toLowerCase(status.s)
        has(kw) == Includes(lowerStatus, kw)
    IN IF has(KwGotovo) \/ has(KwZakryt) \/ has(KwDone) \/ has(KwClosed)
       THEN "icon:check"
       ELSE IF has(KwRabote) \/ has(KwProgress) \/ has(KwRazrabot) THEN "icon:cycle"
       ELSE IF has(KwReview) \/ has(KwRevyu) THEN "icon:eye"
       ELSE IF has(KwRelease) \/ has(KwReliz) THEN "icon:rocket"
       ELSE IF has(KwTest) \/ has(KwTestCyr) THEN "icon:testtube"
       ELSE "icon:document"

\* the two lines of one numbered entry of a list
FormatEntry(r, index) ==
    NumStr(index) \o <<". **[">> \o Interpolate(r.key) \o <<": ">>
      \o Interpolate(r.summary) \o <<"](">> \o r.url \o <<")**\n">>
      \o <<"   - **Status:** ", getStatusIcon(r.status), " ">> \o Interpolate(r.status)
      \o <<" | **Type:** ">> \o Interpolate(r.type) \o <<"\n">>

RECURSIVE FormatEntries(_, _)
FormatEntries(list, index) ==
    IF index > Len(list) THEN <<>>
    ELSE FormatEntry(list[index], index) \o FormatEntries(list, index + 1)

\* the link, type, status and optional priority lines of a block
FormatBlock(r) ==
    <<"**[">> \o Interpolate(r.key) \o <<": ">> \o Interpolate(r.summary)
      \o <<"](">> \o r.url \o <<")**\n">>
      \o <<"- **Type:** ">> \o Interpolate(r.type) \o <<"\n">>
      \o <<"- **Status:** ">> \o Interpolate(r.status) \o <<"\n">>
      \o (IF Truthy(r.priority)
          THEN <<"- **Priority:** ">> \o Interpolate(r.priority) \o <<"\n">>
          ELSE <<>>)

HeadTitle == "## Structure of related issues\n\n"
HeadEpic == "### **EPIC**\n"
HeadEpicStories == "\n#### **Epic stories** ("
HeadParent == "### **PARENT ISSUE**\n"
HeadCurrent == "### **CURRENT ISSUE**\n"
HeadSiblings == "\n### **RELATED SUBTASKS** ("
HeadSubtasks == "### **SUBTASKS** ("
Rule == "\n---\n\n"

\* mutant: the parent block is written before the epic block
formatIssueStructureParentFirst(st) ==
    <<HeadTitle>>
      \o (IF st.parent # Undefined
          THEN <<HeadParent>> \o FormatBlock(st.parent) \o <<Rule>>
          ELSE <<>>)
      \o (IF st.epic # Undefined
          THEN <<HeadEpic>> \o FormatBlock(st.epic)
                 \o (IF Len(st.epicStories) > 0
                     THEN <<HeadEpicStories>> \o NumStr(Len(st.epicStories)) \o <<")\n">>
                            \o FormatEntries(st.epicStories, 1)
                     ELSE <<>>)
                 \o <<Rule>>
          ELSE <<>>)
      \o <<HeadCurrent>> \o FormatBlock(st.current)
      \o (IF Len(st.siblings) > 0
          THEN <<HeadSiblings>> \o NumStr(Len(st.siblings)) \o <<")\n">>
                 \o FormatEntries(st.siblings, 1) \o <<"\n">>
          ELSE <<>>)
      \o (IF Len(st.subtasks) > 0
          THEN <<HeadSubtasks>> \o NumStr(Len(st.subtasks)) \o <<")\n">>
                 \o FormatEntries(st.subtasks, 1)
          ELSE <<>>)

\* mutant: the headings of the two lists after the current issue are
\* written whether or not the lists are empty
formatIssueStructureAllHeadings(st) ==
    <<HeadTitle>>
      \o (IF st.epic # Undefined
          THEN <<HeadEpic>> \o FormatBlock(st.epic)
                 \o (IF Len(st.epicStories) > 0
                     THEN <<HeadEpicStories>> \o NumStr(Len(st.epicStories)) \o <<")\n">>
                            \o FormatEntries(st.epicStories, 1)
                     ELSE <<>>)
                 \o <<Rule>>
          ELSE <<>>)
      \o (IF st.parent # Undefined
          THEN <<HeadParent>> \o FormatBlock(st.parent) \o <<Rule>>
          ELSE <<>>)
      \o <<HeadCurrent>> \o FormatBlock(st.current)
      \o <<HeadSiblings>> \o NumStr(Len(st.siblings)) \o <<")\n">>
      \o FormatEntries(st.siblings, 1) \o <<"\n">>
      \o <<HeadSubtasks>> \o NumStr(Len(st.subtasks)) \o <<")\n">>
      \o FormatEntries(st.subtasks, 1)

formatIssueStructure(st) ==
    <<HeadTitle>>
      \o (IF st.epic # Undefined
          THEN <<HeadEpic>> \o FormatBlock(st.epic)
                 \o (IF Len(st.epicStories) > 0
                     THEN <<HeadEpicStories>> \o NumStr(Len(st.epicStories)) \o <<")\n">>
                            \o FormatEntries(st.epicStories, 1)
                     ELSE <<>>)
                 \o <<Rule>>
          ELSE <<>>)
      \o (IF st.parent # Undefined
          THEN <<HeadParent>> \o FormatBlock(st.parent) \o <<Rule>>
          ELSE <<>>)
      \o <<HeadCurrent>> \o FormatBlock(st.current)
      \o (IF Len(st.siblings) > 0
          THEN <<HeadSiblings>> \o NumStr(Len(st.siblings)) \o <<")\n">>
                 \o FormatEntries(st.siblings, 1) \o <<"\n">>
          ELSE <<>>)
      \o (IF Len(st.subtasks) > 0
          THEN <<HeadSubtasks>> \o NumStr(Len(st.subtasks)) \o <<")\n">>
                 \o FormatEntries(st.subtasks, 1)
          ELSE <<>>)

\* issue.fields.description throws a TypeError when issue.fields is nullish
formatIssueDescriptionThrows(raw) == Nullish(Prop(raw, "fields"))

formatIssueDescription(raw) ==
    LET fields == Prop(raw, "fields")
        description ==
            OrElse(Prop(fields, "description"), Str(<<"No description available">>))
        summary == OrElse(Prop(fields, "summary"), Str(<<"No summary available">>))
        status ==
            OrElse(OptProp(Prop(fields, "status"), "name"), Str(<<"Unknown status">>))
        issueType ==
            OrElse(OptProp(Prop(fields, "issuetype"), "name"), Str(<<"Unknown type">>))
    IN <<"Issue: ">> \o Interpolate(Prop(raw, "key")) \o <<"\n">>
         \o <<"Summary: ">> \o Interpolate(summary) \o <<"\n">>
         \o <<"Type: ">> \o Interpolate(issueType) \o <<"\n">>
         \o <<"Status: ">> \o Interpolate(status) \o <<"\n">>
         \o <<"\nDescription:\n">> \o Interpolate(description)

(***************************************************************************)
(* One invocation of the tool.  The code between two awaits runs as one    *)
(* step; it is written as an operator from the frame of the invocation     *)
(* (its locals, the call log, the response) to the frame at the next       *)
(* await, or at the end.                                                   *)
(***************************************************************************)
issueKey == Str(IssueKey)

Frame ==
    [pc |-> pc, hIssue |-> hIssue, issue |-> issue,
     parentIssueWithSubtasks |-> parentIssueWithSubtasks, epicField |-> epicField,
     structure |-> structure, jqlQueries |-> jqlQueries, jqlIdx |-> jqlIdx,
     gis |-> gis, thrown |-> thrown, calls |-> calls, response |-> response]

Assign(f) ==
    /\ pc' = f.pc
    /\ hIssue' = f.hIssue
    /\ issue' = f.issue
    /\ parentIssueWithSubtasks' = f.parentIssueWithSubtasks
    /\ epicField' = f.epicField
    /\ structure' = f.structure
    /\ jqlQueries' = f.jqlQueries
    /\ jqlIdx' = f.jqlIdx
    /\ gis' = f.gis
    /\ thrown' = f.thrown
    /\ calls' = f.calls
    /\ response' = f.response
    /\ UNCHANGED <<jiraConfig, fn, arg, result>>

\* the maxResults of the two searches
EpicSearchMaxResults == 1
StoryMaxResults == 50

\* maxResults of a request (0 stands for a getIssue, which has none)
maxResultsOf(by) ==
    IF by = "epicName" THEN EpicSearchMaxResults
    ELSE IF by = "story" THEN StoryMaxResults
    ELSE 0

\* a remote call is issued and awaited at `at`
Await(f, at, by, api, query) ==
    [f EXCEPT !.pc = at,
              !.calls = Append(@, [by |-> by, api |-> api, arg |-> query,
                                   maxResults |-> maxResultsOf(by),
                                   outcome |-> "pending", count |-> 0,
                                   issues |-> <<>>])]

\* the awaited call has answered
Settled(f, outcome, count) ==
    [f EXCEPT !.calls[Len(f.calls)].outcome = outcome,
              !.calls[Len(f.calls)].count = count]

\* searchResults.issues && searchResults.issues.length > 0
HasIssues(searchResults) ==
    /\ Truthy(Prop(searchResults, "issues"))
    /\ Len(Prop(searchResults, "issues").items) > 0

IssueCount(searchResults) ==
    IF HasIssues(searchResults) THEN Len(Prop(searchResults, "issues").items) ELSE 0

\* the awaited search has answered with issues
Found(f, searchResults) ==
    [f EXCEPT !.calls[Len(f.calls)].outcome = "ok",
              !.calls[Len(f.calls)].count = IssueCount(searchResults),
              !.calls[Len(f.calls)].issues = searchResults.issues.items]

IsError(r) == r.t = "error"

Content(text) == [content |-> <<[type |-> "text", text |-> text]>>]

(***************************************************************************)
(* read-description.ts: readDescriptionHandler                             *)
(***************************************************************************)
ConfigHelp == "\n\nRequired environment variables: ..."

FailedText(err) ==
    <<"Failed to retrieve issue ">> \o Interpolate(issueKey) \o <<": ">> \o err.message

\* mutant: the catch falls back to the description fetched before
handlerCatchDescription(f, err) ==
    [f EXCEPT !.pc = "done",
              !.response = IF formatIssueDescriptionThrows(f.hIssue)
                           THEN Content(FailedText(err))
                           ELSE Content(formatIssueDescription(f.hIssue))]

\* catch (error) { return {content: [{type: "text", text: `Failed ...`}]} }
handlerCatch(f, err) ==
    [f EXCEPT !.pc = "done", !.response = Content(FailedText(err))]

\* mutant: the formatting runs outside the try block, its exception rejects
\* the promise of the handler
handlerFormatUncaught(f) ==
    IF formatIssueDescriptionThrows(f.hIssue)
    THEN [f EXCEPT !.pc = "done", !.response = [rejected |-> TypeError]]
    ELSE [f EXCEPT !.pc = "done",
                   !.response =
                       Content(formatIssueDescription(f.hIssue) \o <<"\n\n">>
                                 \o formatIssueStructure(f.structure))]

\* after await getIssueStructure(...): format both parts and combine them
handlerFormat(f) ==
    IF formatIssueDescriptionThrows(f.hIssue) THEN handlerCatch(f, TypeError)
    ELSE [f EXCEPT !.pc = "done",
                   !.response =
                       Content(formatIssueDescription(f.hIssue) \o <<"\n\n">>
                                 \o formatIssueStructure(f.structure))]

(***************************************************************************)
(* issue-relationships.ts: searchEpicStories, getIssueStructure            *)
(***************************************************************************)
\* epicKey.split throws a TypeError unless epicKey is a string
jqlQueriesThrows(epicKey) == epicKey.t # "string"

\* mutant: the first custom-field slot queried before the "Epic Link" name
jqlQueriesSlotFirst(epicKey) ==
    << <<"cf[10014] = ">> \o Interpolate(epicKey),
       <<"\"Epic Link\" = ">> \o Interpolate(epicKey),
       <<"cf[10006] = ">> \o Interpolate(epicKey),
       <<"project = ">> \o SplitFirst(epicKey.s, "-") \o <<" AND text ~ \"">>
         \o Interpolate(epicKey) \o <<"\"">> >>

jqlQueriesFor(epicKey) ==
    << <<"\"Epic Link\" = ">> \o Interpolate(epicKey),
       <<"cf[10014] = ">> \o Interpolate(epicKey),
       <<"cf[10006] = ">> \o Interpolate(epicKey),
       <<"project = ">> \o SplitFirst(epicKey.s, "-") \o <<" AND text ~ \"">>
         \o Interpolate(epicKey) \o <<"\"">> >>

\* mutant: when getIssueStructure rejects the handler still answers with the
\* description of the issue it fetched itself
gisRejectKeepDescription(f, err) ==
    [f EXCEPT !.gis = "rejected", !.thrown = err, !.pc = "done",
              !.response = IF formatIssueDescriptionThrows(f.hIssue)
                           THEN Content(FailedText(err))
                           ELSE Content(formatIssueDescription(f.hIssue))]

\* the promise of getIssueStructure rejects; the handler's catch takes it
gisReject(f, err) ==
    handlerCatch([f EXCEPT !.gis = "rejected", !.thrown = err], err)

\* mutant: the subtasks of the parent are taken over unfiltered
siblingsOfAll(subtasks, key, host) == MapConvert(subtasks, host)

\* subtasks.filter(subtask => subtask.key !== issueKey).map(convert)
siblingsOf(subtasks, key, host) ==
    MapConvert(SelectSeq(subtasks, LAMBDA subtask : Prop(subtask, "key") # key), host)

\* lines 211-221: siblings from the parent fetched before, then return
gisReturn(f, host) ==
    LET subtasks == OptProp(OptProp(f.parentIssueWithSubtasks, "fields"), "subtasks")
        g == IF Truthy(subtasks) /\ IsArray(subtasks)
             THEN [f EXCEPT !.structure.siblings =
                               siblingsOf(subtasks.items, issueKey, host)]
             ELSE f
    IN handlerFormat([g EXCEPT !.gis = "returned"])

\* mutant: the stories are filtered by the requested key
filterStoriesByIssueKey(epicStories, current) ==
    SelectSeq(epicStories, LAMBDA story : story.key # issueKey)

\* epicStories.filter(story => story.key !== structure.current.key)
filterStories(epicStories, current) ==
    SelectSeq(epicStories, LAMBDA story : story.key # current.key)

\* mutant: the stories found are added to the subtasks as well
gisStoriesIntoSubtasks(f, host, stories) ==
    gisReturn([f EXCEPT !.structure.epicStories =
                           filterStories(stories, f.structure.current),
                        !.structure.subtasks =
                           @ \o filterStories(stories, f.structure.current),
                        !.jqlIdx = 0],
              host)

\* searchEpicStories has returned `stories`
gisStories(f, host, stories) ==
    gisReturn([f EXCEPT !.structure.epicStories =
                           filterStories(stories, f.structure.current),
                        !.jqlIdx = 0],
              host)

\* mutant: the four queries are issued together and the last is awaited
searchNextAllAtOnce(f, host, i) ==
    IF i > Len(f.jqlQueries) THEN gisStories(f, host, <<>>)
    ELSE Await(Await(Await(Await([f EXCEPT !.jqlIdx = 4],
                                 "g_story", "story", "search", f.jqlQueries[1]),
                           "g_story", "story", "search", f.jqlQueries[2]),
                     "g_story", "story", "search", f.jqlQueries[3]),
               "g_story", "story", "search", f.jqlQueries[4])

\* the for loop of searchEpicStories stands at query i
searchNext(f, host, i) ==
    IF i > Len(f.jqlQueries) THEN gisStories(f, host, <<>>)
    ELSE Await([f EXCEPT !.jqlIdx = i], "g_story", "story", "search", f.jqlQueries[i])

\* mutant: the stories are searched by the located key string, whether or
\* not the epic itself was resolved
gisEpicStoriesByField(f, host) ==
    IF f.structure.epic # Undefined \/ f.epicField.t = "string"
    THEN LET epicKey == IF f.structure.epic # Undefined THEN f.structure.epic.key
                        ELSE f.epicField
         IN IF jqlQueriesThrows(epicKey) THEN gisStories(f, host, <<>>)
            ELSE searchNext([f EXCEPT !.jqlQueries = jqlQueriesFor(epicKey)], host, 1)
    ELSE gisReturn(f, host)

\* a story query may be issued only for a resolved epic
storiesWanted(epic) == epic # Undefined

\* lines 195-209
gisEpicStories(f, host) ==
    IF storiesWanted(f.structure.epic)
    THEN IF jqlQueriesThrows(f.structure.epic.key)
         THEN gisStories(f, host, <<>>)         \* caught at line 89
         ELSE searchNext([f EXCEPT !.jqlQueries = jqlQueriesFor(f.structure.epic.key)],
                         host, 1)
    ELSE gisReturn(f, host)

\* mutant: without an epic reference the parent is fetched as the epic
gisResolveEpicParentFallback(f, host) ==
    LET ef == f.epicField
        projectKey ==
            OrElse(OptProp(OptProp(Prop(f.issue, "fields"), "project"), "key"),
                   Str(SplitFirst(issueKey.s, "-")))
    IN IF ~Truthy(ef)
       THEN IF f.structure.parent # Undefined
            THEN Await(f, "g_epic", "epic", "getIssue", Interpolate(f.structure.parent.key))
            ELSE gisEpicStories(f, host)
       ELSE IF ef.t = "string" THEN Await(f, "g_epic", "epic", "getIssue", ef.s)
       ELSE IF Truthy(Prop(ef, "key"))
       THEN gisEpicStories([f EXCEPT !.structure.epic = convertToRelatedIssue(ef, host)],
                           host)
       ELSE IF Truthy(Prop(ef, "epicName"))
       THEN Await(f, "g_epicsearch", "epicName", "search",
                  <<"project = \"">> \o Interpolate(projectKey)
                    \o <<"\" AND issuetype = Epic AND summary ~ \"">>
                    \o Interpolate(Prop(ef, "epicName")) \o <<"\"">>)
       ELSE gisEpicStories(f, host)

epicNameJql(projectKey, epicName) ==
    <<"project = \"">> \o Interpolate(projectKey)
      \o <<"\" AND issuetype = Epic AND summary ~ \"">> \o Interpolate(epicName)
      \o <<"\"">>

\* mutant: the epic name of a located object is looked at before its key
gisResolveEpicNameFirst(f, host) ==
    LET ef == f.epicField
        projectKey ==
            OrElse(OptProp(OptProp(Prop(f.issue, "fields"), "project"), "key"),
                   Str(SplitFirst(issueKey.s, "-")))
    IN IF ~Truthy(ef) THEN gisEpicStories(f, host)
       ELSE IF ef.t = "string" THEN Await(f, "g_epic", "epic", "getIssue", ef.s)
       ELSE IF Truthy(Prop(ef, "epicName"))
       THEN Await(f, "g_epicsearch", "epicName", "search",
                  epicNameJql(projectKey, Prop(ef, "epicName")))
       ELSE IF Truthy(Prop(ef, "key"))
       THEN gisEpicStories([f EXCEPT !.structure.epic = convertToRelatedIssue(ef, host)],
                           host)
       ELSE gisEpicStories(f, host)

\* lines 150-190
gisResolveEpic(f, host) ==
    LET ef == f.epicField
        projectKey ==
            OrElse(OptProp(OptProp(Prop(f.issue, "fields"), "project"), "key"),
                   Str(SplitFirst(issueKey.s, "-")))
    IN IF ~Truthy(ef) THEN gisEpicStories(f, host)
       ELSE IF ef.t = "string" THEN Await(f, "g_epic", "epic", "getIssue", ef.s)
       ELSE IF Truthy(Prop(ef, "key"))
       THEN gisEpicStories([f EXCEPT !.structure.epic = convertToRelatedIssue(ef, host)],
                           host)
       ELSE IF Truthy(Prop(ef, "epicName"))
       THEN Await(f, "g_epicsearch", "epicName", "search",
                  epicNameJql(projectKey, Prop(ef, "epicName")))
       ELSE gisEpicStories(f, host)

\* mutant: a reference on the target that is an object with neither key nor
\* epic name counts as not found, and the parent is probed
gisLocateEscalateUnusable(f, host) ==
    LET fields == Prop(f.issue, "fields")
        subtasks == OptProp(fields, "subtasks")
        g == IF Truthy(subtasks) /\ IsArray(subtasks)
             THEN [f EXCEPT !.structure.subtasks = MapConvert(subtasks.items, host)]
             ELSE f
        parent == f.parentIssueWithSubtasks
        own == findEpicField(fields)
        usable == /\ Truthy(own)
                  /\ \/ own.t = "string"
                     \/ Truthy(Prop(own, "key"))
                     \/ Truthy(Prop(own, "epicName"))
    IN IF findEpicFieldThrows(fields) THEN gisReject(g, TypeError)
       ELSE IF ~usable /\ Truthy(parent)
       THEN IF findEpicFieldThrows(Prop(parent, "fields"))
            THEN gisReject([g EXCEPT !.epicField = findEpicField(fields)], TypeError)
            ELSE gisResolveEpic(
                     [g EXCEPT !.epicField = findEpicField(Prop(parent, "fields"))], host)
       ELSE gisResolveEpic([g EXCEPT !.epicField = findEpicField(fields)], host)

\* mutant: the Epic Locator is run on the target's fields alone
gisLocateTargetOnly(f, host) ==
    LET fields == Prop(f.issue, "fields")
        subtasks == OptProp(fields, "subtasks")
        g == IF Truthy(subtasks) /\ IsArray(subtasks)
             THEN [f EXCEPT !.structure.subtasks = MapConvert(subtasks.items, host)]
             ELSE f
    IN IF findEpicFieldThrows(fields) THEN gisReject(g, TypeError)
       ELSE gisResolveEpic([g EXCEPT !.epicField = findEpicField(fields)], host)

\* lines 135-148: own subtasks, then the Epic Locator on the target and, if
\* it found nothing and the parent was fetched, on the parent
gisLocate(f, host) ==
    LET fields == Prop(f.issue, "fields")
        subtasks == OptProp(fields, "subtasks")
        g == IF Truthy(subtasks) /\ IsArray(subtasks)
             THEN [f EXCEPT !.structure.subtasks = MapConvert(subtasks.items, host)]
             ELSE f
        parent == f.parentIssueWithSubtasks
    IN IF findEpicFieldThrows(fields) THEN gisReject(g, TypeError)
       ELSE IF ~Truthy(findEpicField(fields)) /\ Truthy(parent)
       THEN IF findEpicFieldThrows(Prop(parent, "fields"))
            THEN gisReject([g EXCEPT !.epicField = findEpicField(fields)], TypeError)
            ELSE gisResolveEpic(
                     [g EXCEPT !.epicField = findEpicField(Prop(parent, "fields"))], host)
       ELSE gisResolveEpic([g EXCEPT !.epicField = findEpicField(fields)], host)

\* lines 110-133: current, structure, parent
gisStart(f, host, payload) ==
    LET parent == OptProp(Prop(payload, "fields"), "parent")
        g == [f EXCEPT !.issue = payload,
                       !.structure =
                           [current |-> convertToRelatedIssue(payload, host),
                            parent |-> Undefined, epic |-> Undefined,
                            subtasks |-> <<>>, siblings |-> <<>>, epicStories |-> <<>>]]
    IN IF Truthy(parent)
       THEN LET p == convertToRelatedIssue(parent, host)
            IN Await([g EXCEPT !.structure.parent = p], "g_parent", "parent", "getIssue",
                     Interpolate(p.key))
       ELSE gisLocate(g, host)

(***************************************************************************)
(* Actions: one per await of the handler, taken when the call answers      *)
(***************************************************************************)
Host == jiraConfig.host.s

\* mutant: the handler's fetch is issued without looking at the configuration
ValidateSkipped ==
    /\ pc = "validate"
    /\ Assign(Await(Frame, "h_fetch", "handler", "getIssue", Interpolate(issueKey)))

\* lines 88-106 of the handler: validate, then issue the handler's own fetch
Validate ==
    /\ pc = "validate"
    /\ LET configError == validateJiraConfig(jiraConfig)
       IN IF Truthy(configError)
          THEN Assign([Frame EXCEPT
                          !.pc = "done",
                          !.response = Content(<<"Configuration error: ">>
                                                 \o configError.s \o <<ConfigHelp>>)])
          ELSE Assign(Await(Frame, "h_fetch", "handler", "getIssue",
                            Interpolate(issueKey)))

\* the handler's fetch answers; on an issue, getIssueStructure is called and
\* issues the fetch of the target
HandlerFetch ==
    /\ pc = "h_fetch"
    /\ \E r \in {RemoteError} \cup HandlerPayloads :
          IF IsError(r) THEN Assign(handlerCatch(Settled(Frame, "failed", 0), r))
          ELSE IF ~Truthy(r)
          THEN Assign([Settled(Frame, "ok", 0) EXCEPT
                          !.pc = "done",
                          !.response = Content(<<"Issue ">> \o Interpolate(issueKey)
                                                 \o <<" not found">>)])
          ELSE Assign(Await([Settled(Frame, "ok", 0) EXCEPT !.hIssue = r, !.gis = "pending"],
                            "g_fetch", "target", "getIssue", Interpolate(issueKey)))

TargetFetch ==
    /\ pc = "g_fetch"
    /\ \E r \in {RemoteError} \cup TargetPayloads :
          IF IsError(r) THEN Assign(gisReject(Settled(Frame, "failed", 0), r))
          ELSE Assign(gisStart(Settled(Frame, "ok", 0), Host, r))

\* mutant: a failed re-fetch of the parent is not caught
ParentFetchFatal ==
    /\ pc = "g_parent"
    /\ \E r \in {RemoteError} \cup ParentPayloads :
          IF IsError(r) THEN Assign(gisReject(Settled(Frame, "failed", 0), r))
          ELSE Assign(gisLocate([Settled(Frame, "ok", 0) EXCEPT
                                    !.parentIssueWithSubtasks = r], Host))

ParentFetch ==
    /\ pc = "g_parent"
    /\ \E r \in {RemoteError} \cup ParentPayloads :
          IF IsError(r) THEN Assign(gisLocate(Settled(Frame, "failed", 0), Host))
          ELSE Assign(gisLocate([Settled(Frame, "ok", 0) EXCEPT
                                    !.parentIssueWithSubtasks = r], Host))

\* mutant: a failed fetch of the epic is issued again
EpicFetchRetry ==
    /\ pc = "g_epic"
    /\ \E r \in {RemoteError} \cup EpicPayloads :
          IF IsError(r)
          THEN Assign(Await(Settled(Frame, "failed", 0), "g_epic", "epic", "getIssue",
                            epicField.s))
          ELSE Assign(gisEpicStories(
                          [Settled(Frame, "ok", 0) EXCEPT
                              !.structure.epic = convertToRelatedIssue(r, Host)], Host))

EpicFetch ==
    /\ pc = "g_epic"
    /\ \E r \in {RemoteError} \cup EpicPayloads :
          IF IsError(r) THEN Assign(gisEpicStories(Settled(Frame, "failed", 0), Host))
          ELSE Assign(gisEpicStories(
                          [Settled(Frame, "ok", 0) EXCEPT
                              !.structure.epic = convertToRelatedIssue(r, Host)], Host))

EpicSearch ==
    /\ pc = "g_epicsearch"
    /\ \E r \in {RemoteError} \cup EpicSearchResults :
          IF IsError(r) THEN Assign(gisEpicStories(Settled(Frame, "failed", 0), Host))
          ELSE IF HasIssues(r)
          THEN Assign(gisEpicStories(
                          [Found(Frame, r) EXCEPT
                              !.structure.epic =
                                  convertToRelatedIssue(Prop(r, "issues").items[1], Host)],
                          Host))
          ELSE Assign(gisEpicStories(Settled(Frame, "ok", 0), Host))

\* mutant: a failed story query is not caught
StoryQueryRethrow ==
    /\ pc = "g_story"
    /\ \E r \in {RemoteError} \cup StoryResults :
          IF IsError(r) THEN Assign(gisReject(Settled(Frame, "failed", 0), r))
          ELSE IF HasIssues(r)
          THEN Assign(gisStories(Found(Frame, r), Host,
                                 MapConvert(Prop(r, "issues").items, Host)))
          ELSE Assign(searchNext(Settled(Frame, "ok", 0), Host, jqlIdx + 1))

StoryQuery ==
    /\ pc = "g_story"
    /\ \E r \in {RemoteError} \cup StoryResults :
          IF IsError(r) THEN Assign(searchNext(Settled(Frame, "failed", 0), Host, jqlIdx + 1))
          ELSE IF HasIssues(r)
          THEN Assign(gisStories(Found(Frame, r), Host,
                                 MapConvert(Prop(r, "issues").items, Host)))
          ELSE Assign(searchNext(Settled(Frame, "ok", 0), Host, jqlIdx + 1))

(***************************************************************************)
(* The configurations the server may have been started with                *)
(***************************************************************************)
HostPlain == <<"j", ".", "i", "o">>
Configs ==
    {[host |-> Str(HttpsPrefix \o HostPlain), username |-> Str(<<"u">>),
      password |-> Str(<<"p">>), apiToken |-> Undefined],
     [host |-> Str(<<>>), username |-> Str(<<"u">>),
      password |-> Str(<<"p">>), apiToken |-> Undefined],
     [host |-> Str(<<"a">> \o AtlassianNet), username |-> Str(<<"u">>),
      password |-> Str(<<>>), apiToken |-> Str(<<"k">>)]}

\* the locals of an invocation before it starts
Fresh ==
    /\ hIssue = Undefined
    /\ issue = Undefined
    /\ parentIssueWithSubtasks = Null
    /\ epicField = Undefined
    /\ structure = Undefined
    /\ jqlQueries = <<>>
    /\ jqlIdx = 0
    /\ gis = "idle"
    /\ thrown = Undefined
    /\ calls = <<>>
    /\ response = Undefined

Init ==
    /\ jiraConfig \in Configs
    /\ pc = "validate"
    /\ Fresh
    /\ fn = "none" /\ arg = Undefined /\ result = Undefined

Next ==
    \/ Validate
    \/ HandlerFetch
    \/ TargetFetch
    \/ ParentFetch
    \/ EpicFetch
    \/ EpicSearch
    \/ StoryQuery

Spec == Init /\ [][Next]_vars

(***************************************************************************)
(* findEpicField applied on its own to every combination of the five       *)
(* fields being absent, empty, a key, or an embedded object                *)
(***************************************************************************)
LocatorValues == {Undefined, Str(<<>>), Str(EpicKey), EmbeddedEpic}
LocatorInputs ==
    {Obj([customfield_10014 |-> a, customfield_10006 |-> b, customfield_10007 |-> c,
          epic |-> d, epicLink |-> e]) :
        a \in LocatorValues, b \in LocatorValues, c \in LocatorValues,
        d \in LocatorValues, e \in LocatorValues}

InitLocator ==
    /\ jiraConfig \in {c \in Configs : validateJiraConfig(c) = Null}
    /\ pc = "off"
    /\ Fresh
    /\ fn = "findEpicField" /\ arg \in LocatorInputs /\ result = Undefined

ApplyFindEpicField ==
    /\ fn = "findEpicField" /\ result = Undefined
    /\ result' = findEpicField(arg)
    /\ UNCHANGED <<jiraConfig, pc, hIssue, issue, parentIssueWithSubtasks, epicField,
                   structure, jqlQueries, jqlIdx, gis, thrown, calls, response, fn, arg>>

NextLocator == ApplyFindEpicField

SpecLocator == InitLocator /\ [][NextLocator]_vars

(***************************************************************************)
(* Several invocations of the handler in flight at once.  Each call of the *)
(* async function has its own locals (every let and const of the handler,  *)
(* of getIssueStructure and of searchEpicStories is declared inside the    *)
(* function); jira and jiraConfig belong to the closure and are only read. *)
(* Here every variable of the invocation is a function of the invocation,  *)
(* and arg keeps, per invocation, the events it has seen: its call and the *)
(* answers to its remote calls.                                            *)
(***************************************************************************)
NumInvocations == 2
Invocations == 1..NumInvocations

FreshFrame ==
    [pc |-> "validate", hIssue |-> Undefined, issue |-> Undefined,
     parentIssueWithSubtasks |-> Null, epicField |-> Undefined,
     structure |-> Undefined, jqlQueries |-> <<>>, jqlIdx |-> 0,
     gis |-> "idle", thrown |-> Undefined, calls |-> <<>>, response |-> Undefined]

FrameAt(i) ==
    [pc |-> pc[i], hIssue |-> hIssue[i], issue |-> issue[i],
     parentIssueWithSubtasks |-> parentIssueWithSubtasks[i],
     epicField |-> epicField[i], structure |-> structure[i],
     jqlQueries |-> jqlQueries[i], jqlIdx |-> jqlIdx[i], gis |-> gis[i],
     thrown |-> thrown[i], calls |-> calls[i], response |-> response[i]]

CallEvent == [t |-> "call"]

\* mutant: parentIssueWithSubtasks is declared at module level, one variable
\* for all invocations
AssignShared(i, f, event) ==
    /\ pc' = [pc EXCEPT ![i] = f.pc]
    /\ hIssue' = [hIssue EXCEPT ![i] = f.hIssue]
    /\ issue' = [issue EXCEPT ![i] = f.issue]
    /\ parentIssueWithSubtasks' = [j \in Invocations |-> f.parentIssueWithSubtasks]
    /\ epicField' = [epicField EXCEPT ![i] = f.epicField]
    /\ structure' = [structure EXCEPT ![i] = f.structure]
    /\ jqlQueries' = [jqlQueries EXCEPT ![i] = f.jqlQueries]
    /\ jqlIdx' = [jqlIdx EXCEPT ![i] = f.jqlIdx]
    /\ gis' = [gis EXCEPT ![i] = f.gis]
    /\ thrown' = [thrown EXCEPT ![i] = f.thrown]
    /\ calls' = [calls EXCEPT ![i] = f.calls]
    /\ response' = [response EXCEPT ![i] = f.response]
    /\ arg' = [arg EXCEPT ![i] = Append(@, event)]
    /\ UNCHANGED <<jiraConfig, fn, result>>

\* invocation i goes on to frame f after `event`
AssignAt(i, f, event) ==
    /\ pc' = [pc EXCEPT ![i] = f.pc]
    /\ hIssue' = [hIssue EXCEPT ![i] = f.hIssue]
    /\ issue' = [issue EXCEPT ![i] = f.issue]
    /\ parentIssueWithSubtasks' =
           [parentIssueWithSubtasks EXCEPT ![i] = f.parentIssueWithSubtasks]
    /\ epicField' = [epicField EXCEPT ![i] = f.epicField]
    /\ structure' = [structure EXCEPT ![i] = f.structure]
    /\ jqlQueries' = [jqlQueries EXCEPT ![i] = f.jqlQueries]
    /\ jqlIdx' = [jqlIdx EXCEPT ![i] = f.jqlIdx]
    /\ gis' = [gis EXCEPT ![i] = f.gis]
    /\ thrown' = [thrown EXCEPT ![i] = f.thrown]
    /\ calls' = [calls EXCEPT ![i] = f.calls]
    /\ response' = [response EXCEPT ![i] = f.response]
    /\ arg' = [arg EXCEPT ![i] = Append(@, event)]
    /\ UNCHANGED <<jiraConfig, fn, result>>

\* the handler is called: lines 88-106, up to its own fetch
handlerInvoke(f, config) ==
    LET configError == validateJiraConfig(config)
    IN IF Truthy(configError)
       THEN [f EXCEPT !.pc = "done",
                      !.response = Content(<<"Configuration error: ">>
                                             \o configError.s \o <<ConfigHelp>>)]
       ELSE Await(f, "h_fetch", "handler", "getIssue", Interpolate(issueKey))

\* the call awaited in frame f answers r: the code up to the next await
resume(f, r, host) ==
    CASE f.pc = "h_fetch" ->
             IF IsError(r) THEN handlerCatch(Settled(f, "failed", 0), r)
             ELSE IF ~Truthy(r)
             THEN [Settled(f, "ok", 0) EXCEPT
                      !.pc = "done",
                      !.response = Content(<<"Issue ">> \o Interpolate(issueKey)
                                             \o <<" not found">>)]
             ELSE Await([Settled(f, "ok", 0) EXCEPT !.hIssue = r, !.gis = "pending"],
                        "g_fetch", "target", "getIssue", Interpolate(issueKey))
      [] f.pc = "g_fetch" ->
             IF IsError(r) THEN gisReject(Settled(f, "failed", 0), r)
             ELSE gisStart(Settled(f, "ok", 0), host, r)
      [] f.pc = "g_parent" ->
             IF IsError(r) THEN gisLocate(Settled(f, "failed", 0), host)
             ELSE gisLocate([Settled(f, "ok", 0) EXCEPT !.parentIssueWithSubtasks = r],
                            host)
      [] f.pc = "g_epic" ->
             IF IsError(r) THEN gisEpicStories(Settled(f, "failed", 0), host)
             ELSE gisEpicStories([Settled(f, "ok", 0) EXCEPT
                                     !.structure.epic = convertToRelatedIssue(r, host)],
                                 host)
      [] f.pc = "g_epicsearch" ->
             IF IsError(r) THEN gisEpicStories(Settled(f, "failed", 0), host)
             ELSE IF HasIssues(r)
             THEN gisEpicStories(
                      [Found(f, r) EXCEPT
                          !.structure.epic =
                              convertToRelatedIssue(Prop(r, "issues").items[1], host)],
                      host)
             ELSE gisEpicStories(Settled(f, "ok", 0), host)
      [] f.pc = "g_story" ->
             IF IsError(r) THEN searchNext(Settled(f, "failed", 0), host, f.jqlIdx + 1)
             ELSE IF HasIssues(r)
             THEN gisStories(Found(f, r), host, MapConvert(Prop(r, "issues").items, host))
             ELSE searchNext(Settled(f, "ok", 0), host, f.jqlIdx + 1)

\* what the remote answers here: a failure or one payload per call, the
\* target with a parent or with an epic name
PairHandlerPayloads == {RawIssue(IssueKey, Display @@ [description |-> Str(<<"d">>)])}
PairTargetPayloads ==
    {RawIssue(IssueKey, TargetFields(<<ParentRef>>, <<>>,
                                     [project |-> Obj([key |-> Str(<<"X">>)])])),
     RawIssue(IssueKey, TargetFields(<<>>, <<>>, [customfield_10007 |-> Str(EpicName)]))}
PairParentPayloads ==
    {RawIssue(ParentKey, ParentFields(<<Arr(SubSeq(SiblingPool, 1, 2))>>,
                                      [customfield_10006 |-> Str(EpicKey)]))}
PairEpicPayloads == {RawIssue(EpicKey, Display)}
PairEpicSearchResults == {Obj([issues |-> Arr(<<RawIssue(EpicKey, Display)>>)])}
PairStoryResults == {Obj([issues |-> Arr(SubSeq(StoryPool, 1, 2))])}

InitPair ==
    /\ jiraConfig \in {c \in Configs : validateJiraConfig(c) = Null}
    /\ pc = [i \in Invocations |-> FreshFrame.pc]
    /\ hIssue = [i \in Invocations |-> FreshFrame.hIssue]
    /\ issue = [i \in Invocations |-> FreshFrame.issue]
    /\ parentIssueWithSubtasks = [i \in Invocations |-> FreshFrame.parentIssueWithSubtasks]
    /\ epicField = [i \in Invocations |-> FreshFrame.epicField]
    /\ structure = [i \in Invocations |-> FreshFrame.structure]
    /\ jqlQueries = [i \in Invocations |-> FreshFrame.jqlQueries]
    /\ jqlIdx = [i \in Invocations |-> FreshFrame.jqlIdx]
    /\ gis = [i \in Invocations |-> FreshFrame.gis]
    /\ thrown = [i \in Invocations |-> FreshFrame.thrown]
    /\ calls = [i \in Invocations |-> FreshFrame.calls]
    /\ response = [i \in Invocations |-> FreshFrame.response]
    /\ fn = "readDescriptionHandler"
    /\ arg = [i \in Invocations |-> <<>>]
    /\ result = Undefined

PairInvoke(i) ==
    /\ pc[i] = "validate"
    /\ AssignAt(i, handlerInvoke(FrameAt(i), jiraConfig), CallEvent)

PairHandlerFetch(i) ==
    /\ pc[i] = "h_fetch"
    /\ \E r \in {RemoteError} \cup PairHandlerPayloads :
          AssignAt(i, resume(FrameAt(i), r, Host), r)

PairTargetFetch(i) ==
    /\ pc[i] = "g_fetch"
    /\ \E r \in {RemoteError} \cup PairTargetPayloads :
          AssignAt(i, resume(FrameAt(i), r, Host), r)

PairParentFetch(i) ==
    /\ pc[i] = "g_parent"
    /\ \E r \in {RemoteError} \cup PairParentPayloads :
          AssignAt(i, resume(FrameAt(i), r, Host), r)

PairEpicFetch(i) ==
    /\ pc[i] = "g_epic"
    /\ \E r \in {RemoteError} \cup PairEpicPayloads :
          AssignAt(i, resume(FrameAt(i), r, Host), r)

PairEpicSearch(i) ==
    /\ pc[i] = "g_epicsearch"
    /\ \E r \in {RemoteError} \cup PairEpicSearchResults :
          AssignAt(i, resume(FrameAt(i), r, Host), r)

PairStoryQuery(i) ==
    /\ pc[i] = "g_story"
    /\ \E r \in {RemoteError} \cup PairStoryResults :
          AssignAt(i, resume(FrameAt(i), r, Host), r)

NextPair ==
    \/ \E i \in Invocations : PairInvoke(i)
    \/ \E i \in Invocations : PairHandlerFetch(i)
    \/ \E i \in Invocations : PairTargetFetch(i)
    \/ \E i \in Invocations : PairParentFetch(i)
    \/ \E i \in Invocations : PairEpicFetch(i)
    \/ \E i \in Invocations : PairEpicSearch(i)
    \/ \E i \in Invocations : PairStoryQuery(i)

SpecPair == InitPair /\ [][NextPair]_vars

\* one invocation run alone from frame f through the events it is given
RECURSIVE RunAlone(_, _, _)
RunAlone(f, events, config) ==
    IF events = <<>> THEN f
    ELSE RunAlone(IF Head(events) = CallEvent THEN handlerInvoke(f, config)
                  ELSE resume(f, Head(events), config.host.s),
                  Tail(events), config)

(***************************************************************************)
(* formatIssueStructure applied on its own to structures with and without  *)
(* epic and parent and with lists of every length up to MaxListed (also    *)
(* to structures getIssueStructure does not build, such as epic stories    *)
(* without an epic)                                                        *)
(***************************************************************************)
MaxListed == 2

FormatPool(host) == MapConvert(SiblingPool, host)
FormatLists(host) == {SubSeq(FormatPool(host), 1, n) : n \in 0..MaxListed}
FormatInputs(host) ==
    {[current |-> convertToRelatedIssue(RawIssue(IssueKey, Display), host),
      parent |-> p, epic |-> e, subtasks |-> sub, siblings |-> sib, epicStories |-> st] :
        p \in {Undefined, convertToRelatedIssue(ParentRef, host)},
        e \in {Undefined, convertToRelatedIssue(EmbeddedEpic, host)},
        sub \in FormatLists(host), sib \in FormatLists(host), st \in FormatLists(host)}

InitFormat ==
    /\ jiraConfig \in {c \in Configs : validateJiraConfig(c) = Null}
    /\ pc = "off"
    /\ Fresh
    /\ fn = "formatIssueStructure"
    /\ arg \in FormatInputs(jiraConfig.host.s)
    /\ result = Undefined

ApplyFormatIssueStructure ==
    /\ fn = "formatIssueStructure" /\ result = Undefined
    /\ result' = Str(formatIssueStructure(arg))
    /\ UNCHANGED <<jiraConfig, pc, hIssue, issue, parentIssueWithSubtasks, epicField,
                   structure, jqlQueries, jqlIdx, gis, thrown, calls, response, fn, arg>>

NextFormat == ApplyFormatIssueStructure

SpecFormat == InitFormat /\ [][NextFormat]_vars

(***************************************************************************)
(* The helper functions applied on their own.  fn names the function, arg  *)
(* is its argument and result what it returned.                            *)
(***************************************************************************)
Returned(v) == [t |-> "returned", value |-> v]

\* status names: nothing, one keyword or two keywords of any categories in
\* either order, after some other text or not, in lower or in upper case;
\* and the two status names "In Progress" and "v rabote"
StatusInputs ==
    LET keywords ==
            {KwGotovo, KwZakryt, KwDone, KwClosed, KwRabote, KwProgress, KwRazrabot,
             KwReview, KwRevyu, KwRelease, KwReliz, KwTest, KwTestCyr}
        toUpperCase(s) ==
            [i \in 1..Len(s) |->
                IF \E k \in 1..Len(LowerCase) : LowerCase[k] = s[i]
                THEN UpperCase[CHOOSE k \in 1..Len(LowerCase) : LowerCase[k] = s[i]]
                ELSE s[i]]
        words == keywords \cup {<<>>}
        lower == {lead \o a \o sep \o b :
                     lead \in {<<>>, <<"o", "n", " ">>}, a \in words,
                     sep \in {<<" ">>}, b \in words}
    IN {Str(s) : s \in lower} \cup {Str(toUpperCase(s)) : s \in lower}
       \cup {Str(<<"I", "n", " ", "P", "r", "o", "g", "r", "e", "s", "s">>),
             Str(<<"~v", " ">> \o KwRabote)}

\* raw issues with a key: without fields, with fields null, and with every
\* combination of summary, status, issuetype and priority being absent,
\* null, empty or given (a name inside an object for the last three)
ConvertInputs ==
    LET texts(t) == {Undefined, Null, Str(<<>>), Str(t)}
        named(t) == {Undefined, Null, EmptyObj, Obj([name |-> Str(<<>>)]),
                     Obj([name |-> Str(t)])}
        put(name, v) == IF v = Undefined THEN <<>> ELSE [n \in {name} |-> v]
    IN {RawBare(IssueKey), Obj([key |-> Str(IssueKey), fields |-> Null])}
       \cup {RawIssue(IssueKey,
                      put("summary", su) @@ put("status", st) @@ put("issuetype", ty)
                        @@ put("priority", pr)) :
               su \in texts(<<"s">>), st \in named(<<"D", "o", "n", "e">>),
               ty \in named(<<"T">>), pr \in named(<<"H">>)}

\* hosts as they may be configured: a host name, a host name with a path,
\* one that begins with the letters of a protocol; each bare, after
\* "http://" or "https://", and after two such prefixes
UrlInputs ==
    LET plain == {<<"j", ".", "i", "o">>, <<"j", ".", "i", "o", "/", "x">>,
                  <<"h", "t", "t", "p", "s", ".", "i", "o">>}
        prefixes == {<<>>, HttpPrefix, HttpsPrefix}
    IN {[host |-> p \o q \o h, issueKey |-> Str(IssueKey)] :
           p \in prefixes, q \in prefixes, h \in plain}

\* date-utils.ts (src/unnamed/part_004): formatDuration, for a number of
\* seconds that is a non-negative integer.  A text is its characters here.
\* mutant: a day of 24 hours
formatDuration24(seconds) ==
    LET days == seconds \div (24 * 3600)
        hours == (seconds % (24 * 3600)) \div 3600
        minutes == (seconds % 3600) \div 60
        parts == (IF days > 0 THEN <<NumStr(days) \o <<"d">>>> ELSE <<>>)
                   \o (IF hours > 0 THEN <<NumStr(hours) \o <<"h">>>> ELSE <<>>)
                   \o (IF minutes > 0 THEN <<NumStr(minutes) \o <<"m">>>> ELSE <<>>)
        join[n \in 0..Len(parts)] ==
            IF n = 0 THEN <<>>
            ELSE IF n = 1 THEN parts[1]
            ELSE join[n - 1] \o <<" ">> \o parts[n]
    IN IF join[Len(parts)] = <<>> THEN <<"0", "m">> ELSE join[Len(parts)]

formatDuration(seconds) ==
    LET days == seconds \div (8 * 3600)
        hours == (seconds % (8 * 3600)) \div 3600
        minutes == (seconds % 3600) \div 60
        parts == (IF days > 0 THEN <<NumStr(days) \o <<"d">>>> ELSE <<>>)
                   \o (IF hours > 0 THEN <<NumStr(hours) \o <<"h">>>> ELSE <<>>)
                   \o (IF minutes > 0 THEN <<NumStr(minutes) \o <<"m">>>> ELSE <<>>)
        \* parts.join(" ")
        join[n \in 0..Len(parts)] ==
            IF n = 0 THEN <<>>
            ELSE IF n = 1 THEN parts[1]
            ELSE join[n - 1] \o <<" ">> \o parts[n]
    IN IF join[Len(parts)] = <<>> THEN <<"0", "m">> ELSE join[Len(parts)]

\* numbers of seconds: up to MaxDays working days, then every number of
\* whole minutes of a working day, then no, one or 59 seconds more
MaxDays == 2
DurationInputs ==
    {(8 * 3600) * d + 60 * q + r : d \in 0..MaxDays, q \in 0..479, r \in {0, 1, 59}}

\* configurations: host empty, on-premise or Atlassian Cloud; username
\* empty, plain, an e-mail address or a near miss of one; password and API
\* token unset, empty or set
ConfigInputs ==
    LET hosts == {<<>>, HttpsPrefix \o HostPlain, HttpsPrefix \o <<"a">> \o AtlassianNet}
        usernames ==
            {<<>>, <<"u">>, <<"u", "@", "x", ".", "i", "o">>, <<"u", "@", "x">>,
             <<"@", "x", ".", "i", "o">>, <<"u", " ", "@", "x", ".", "i", "o">>,
             <<"u", "@", "x", ".">>, <<"u", "@", ".", "i", "o">>,
             <<"u", "@", "@", "x", ".", "i", "o">>, <<"u", ".", "v", "@", "x", ".", "y", ".", "i", "o">>}
        secrets == {Undefined, Str(<<>>), Str(<<"k">>)}
    IN {[host |-> Str(h), username |-> Str(u), password |-> pw, apiToken |-> tk] :
           h \in hosts, u \in usernames, pw \in secrets, tk \in secrets}

InitPure ==
    /\ jiraConfig \in {c \in Configs : validateJiraConfig(c) = Null}
    /\ pc = "off"
    /\ Fresh
    /\ result = Undefined
    /\ \/ fn = "getStatusIcon" /\ arg \in StatusInputs
       \/ fn = "convertToRelatedIssue" /\ arg \in ConvertInputs
       \/ fn = "createJiraUrl" /\ arg \in UrlInputs
       \/ fn = "validateJiraConfig" /\ arg \in ConfigInputs
       \/ fn = "formatDuration" /\ arg \in DurationInputs

ApplyGetStatusIcon ==
    /\ fn = "getStatusIcon" /\ result = Undefined
    /\ result' = Returned(getStatusIcon(arg))
    /\ UNCHANGED <<jiraConfig, pc, hIssue, issue, parentIssueWithSubtasks, epicField,
                   structure, jqlQueries, jqlIdx, gis, thrown, calls, response, fn, arg>>

ApplyConvertToRelatedIssue ==
    /\ fn = "convertToRelatedIssue" /\ result = Undefined
    /\ result' = Returned(convertToRelatedIssue(arg, jiraConfig.host.s))
    /\ UNCHANGED <<jiraConfig, pc, hIssue, issue, parentIssueWithSubtasks, epicField,
                   structure, jqlQueries, jqlIdx, gis, thrown, calls, response, fn, arg>>

ApplyCreateJiraUrl ==
    /\ fn = "createJiraUrl" /\ result = Undefined
    /\ result' = Returned(createJiraUrl(arg.host, arg.issueKey))
    /\ UNCHANGED <<jiraConfig, pc, hIssue, issue, parentIssueWithSubtasks, epicField,
                   structure, jqlQueries, jqlIdx, gis, thrown, calls, response, fn, arg>>

ApplyValidateJiraConfig ==
    /\ fn = "validateJiraConfig" /\ result = Undefined
    /\ result' = Returned(validateJiraConfig(arg))
    /\ UNCHANGED <<jiraConfig, pc, hIssue, issue, parentIssueWithSubtasks, epicField,
                   structure, jqlQueries, jqlIdx, gis, thrown, calls, response, fn, arg>>

ApplyFormatDuration ==
    /\ fn = "formatDuration" /\ result = Undefined
    /\ result' = Returned(formatDuration(arg))
    /\ UNCHANGED <<jiraConfig, pc, hIssue, issue, parentIssueWithSubtasks, epicField,
                   structure, jqlQueries, jqlIdx, gis, thrown, calls, response, fn, arg>>

NextPure ==
    \/ ApplyGetStatusIcon
    \/ ApplyConvertToRelatedIssue
    \/ ApplyCreateJiraUrl
    \/ ApplyValidateJiraConfig
    \/ ApplyFormatDuration

SpecPure == InitPure /\ [][NextPure]_vars

(***************************************************************************)
(* Properties                                                              *)
(***************************************************************************)
CallsBy(who) == SelectSeq(calls, LAMBDA c : c.by = who)
StoryCalls == CallsBy("story")
NoIssues(c) == c.outcome = "failed" \/ (c.outcome = "ok" /\ c.count = 0)
ResponseText == response.content[1].text
StructureHeads ==
    {HeadTitle, HeadEpic, HeadEpicStories, HeadParent, HeadCurrent, HeadSiblings,
     HeadSubtasks}

\* C1: in a returned structure neither siblings nor epicStories holds an
\* entry whose key equals current.key.
C1_NoSelfReference ==
    gis = "returned" =>
        /\ \A i \in 1..Len(structure.siblings) :
              structure.siblings[i].key # structure.current.key
        /\ \A i \in 1..Len(structure.epicStories) :
              structure.epicStories[i].key # structure.current.key

\* C2: in a returned structure an absent epic comes with empty epicStories.
C2_AbsentEpicNoStories ==
    gis = "returned" =>
        (structure.epic = Undefined => structure.epicStories = <<>>)

\* the epic key was located and its fetch failed: the epic is absent
C2_Witness ==
    /\ gis = "returned"
    /\ structure.epic = Undefined
    /\ epicField = Str(EpicKey)
    /\ \E i \in 1..Len(calls) : calls[i].by = "epic" /\ calls[i].outcome = "failed"

\* C3: once the fetch of the target has succeeded the invocation ends with a
\* returned structure whose current is the target, whatever the later calls
\* answer.
C3_ReturnsAfterTargetFetch ==
    (pc = "done" /\ issue # Undefined) =>
        /\ gis = "returned"
        /\ structure # Undefined
        /\ structure.current.key = Prop(issue, "key")

\* C4: no step after the fetch of the target throws: getIssueStructure never
\* rejects with anything once the target is fetched.
C4_NoUncaughtFailure == issue # Undefined => (thrown = Undefined /\ gis # "rejected")

\* C5: a failed fetch of the target rejects getIssueStructure at once (no
\* later call, no structure), and the handler answers the failure text alone.
C5_FatalTargetFetch ==
    (\E i \in 1..Len(calls) : calls[i].by = "target" /\ calls[i].outcome = "failed") =>
        /\ gis = "rejected" /\ thrown = RemoteError
        /\ structure = Undefined
        /\ calls[Len(calls)].by = "target"
        /\ pc = "done"
        /\ response = Content(<<"Failed to retrieve issue ">> \o IssueKey \o <<": ">>
                                \o RemoteError.message)
        /\ \A i \in 1..Len(ResponseText) : ResponseText[i] \notin StructureHeads

\* the handler's own fetch gave a describable issue, the second fetch failed
C5_Witness ==
    /\ pc = "done"
    /\ ~formatIssueDescriptionThrows(hIssue)
    /\ Len(calls) = 2 /\ calls[2].by = "target" /\ calls[2].outcome = "failed"

\* C6: whenever the handler has finished it has resolved to
\* {content: [one item {type: "text", text}]}.
C6_AlwaysTextContent ==
    pc = "done" =>
        /\ DOMAIN response = {"content"}
        /\ Len(response.content) = 1
        /\ DOMAIN response.content[1] = {"type", "text"}
        /\ response.content[1].type = "text"
        /\ response.content[1].text \in Seq(STRING)

\* the structure was returned and formatting the description threw
C6_Witness ==
    /\ pc = "done"
    /\ gis = "returned"
    /\ formatIssueDescriptionThrows(hIssue)
    /\ response = Content(FailedText(TypeError))

\* the characters of a key before its first "-"
C7_Prefix(k) ==
    CHOOSE p \in {SubSeq(k, 1, n) : n \in 0..Len(k)} :
        /\ \A i \in 1..Len(p) : p[i] # "-"
        /\ Len(p) < Len(k) => k[Len(p) + 1] = "-"

C7_Candidates(k) ==
    << <<"\"Epic Link\" = ">> \o k,
       <<"cf[10014] = ">> \o k,
       <<"cf[10006] = ">> \o k,
       <<"project = ">> \o C7_Prefix(k) \o <<" AND text ~ \"">> \o k \o <<"\"">> >>

\* C7: the i-th story query issued is candidate i, and every story query
\* but the last one issued has failed or returned no issue.
C7_CandidateOrder ==
    Len(StoryCalls) > 0 =>
        /\ Len(StoryCalls) <= 4
        /\ \A i \in 1..Len(StoryCalls) :
              /\ StoryCalls[i].api = "search"
              /\ StoryCalls[i].arg = C7_Candidates(structure.epic.key.s)[i]
        /\ \A i \in 1..(Len(StoryCalls) - 1) : NoIssues(StoryCalls[i])

\* a failure, an empty result and another failure led to the fourth query,
\* which returned issues
C7_Witness ==
    /\ Len(StoryCalls) = 4
    /\ StoryCalls[1].outcome = "failed"
    /\ StoryCalls[2].outcome = "ok" /\ StoryCalls[2].count = 0
    /\ StoryCalls[3].outcome = "failed"
    /\ StoryCalls[4].outcome = "ok" /\ StoryCalls[4].count > 0

\* C8: a failed story query is followed by the next candidate, never by a
\* rejection; when all four have failed or returned nothing, and when the
\* queries cannot be built at all, the stories are the empty sequence.
C8_SearchNeverRejects ==
    /\ \A i \in 1..Len(StoryCalls) :
          (StoryCalls[i].outcome = "failed" /\ i < 4) => Len(StoryCalls) > i
    /\ Len(StoryCalls) > 0 => gis # "rejected"
    /\ (Len(StoryCalls) = 4 /\ \A i \in 1..4 : NoIssues(StoryCalls[i])) =>
          (gis = "returned" /\ structure.epicStories = <<>>)
    /\ (gis = "returned" /\ structure.epic # Undefined /\ Len(StoryCalls) = 0) =>
          structure.epicStories = <<>>

\* all four candidates answered, failures and empty results mixed
C8_Witness ==
    /\ Len(StoryCalls) = 4
    /\ \A i \in 1..4 : NoIssues(StoryCalls[i])
    /\ \E i \in 1..4 : StoryCalls[i].outcome = "failed"
    /\ \E i \in 1..4 : StoryCalls[i].outcome = "ok"
    /\ StoryCalls[4].outcome = "failed"

C9_Names ==
    <<"customfield_10014", "customfield_10006", "customfield_10007", "epic", "epicLink">>

\* C9: findEpicField returns the value of the first populated field in the
\* order of C9_Names (a string in customfield_10007 wrapped as an epic name),
\* and null when none is populated.
C9_FirstPopulatedWins ==
    (fn = "findEpicField" /\ result # Undefined) =>
        LET populated == {i \in 1..5 : Truthy(Prop(arg, C9_Names[i]))}
        IN IF populated = {} THEN result = Null
           ELSE LET first == CHOOSE m \in populated : \A n \in populated : m <= n
                    v == Prop(arg, C9_Names[first])
                IN result = IF first = 3 /\ v.t = "string"
                            THEN [t |-> "object", epicName |-> v]
                            ELSE v

\* the epic name wins over the populated epic and epicLink after it, the
\* empty customfield_10006 before it is passed over
C9_Witness ==
    /\ fn = "findEpicField"
    /\ result = [t |-> "object", epicName |-> Str(EpicKey)]
    /\ Prop(arg, "customfield_10014") = Undefined
    /\ Prop(arg, "customfield_10006") = Str(<<>>)
    /\ Truthy(Prop(arg, "epic")) /\ Truthy(Prop(arg, "epicLink"))

\* C10: when the Epic Locator has found nothing, the epic is absent, the
\* stories are empty and no epic fetch, name search or story query is issued.
C10_NothingLocatedNothingTried ==
    epicField = Null =>
        /\ structure.epic = Undefined
        /\ structure.epicStories = <<>>
        /\ \A i \in 1..Len(calls) : calls[i].by \notin {"epic", "epicName", "story"}

\* the locator ran on the target and on the fetched parent and found nothing
C10_Witness ==
    /\ gis = "returned"
    /\ epicField = Null
    /\ Truthy(parentIssueWithSubtasks)
    /\ Len(structure.siblings) > 0

\* the target was fetched with fields that hold a parent reference and no
\* epic reference
ParentCalls == CallsBy("parent")
TargetHasParentNoEpic ==
    /\ issue # Undefined
    /\ ~findEpicFieldThrows(Prop(issue, "fields"))
    /\ Truthy(OptProp(Prop(issue, "fields"), "parent"))
    /\ ~Truthy(findEpicField(Prop(issue, "fields")))

\* C11 as stated: whenever the target has a parent reference and no epic
\* reference of its own, the structure is not returned before the Epic
\* Locator has been given the parent's fields.
C11_AlwaysEscalates ==
    (gis = "returned" /\ TargetHasParentNoEpic) => Truthy(parentIssueWithSubtasks)

\* C11 amended: when the target has a parent reference and no epic reference
\* of its own and the re-fetch of the parent has succeeded, the Epic Locator
\* is run on the fields of the re-fetched parent: its result is the located
\* reference, or its TypeError (parent without fields) is what the
\* invocation rejects with.
C11_EscalatesToFetchedParent ==
    (TargetHasParentNoEpic /\ Len(ParentCalls) > 0 /\ ParentCalls[1].outcome = "ok") =>
        IF findEpicFieldThrows(Prop(parentIssueWithSubtasks, "fields"))
        THEN gis = "rejected" /\ thrown = TypeError
        ELSE epicField = findEpicField(Prop(parentIssueWithSubtasks, "fields"))

\* nothing on the target, the key in customfield_10006 of the re-fetched
\* parent, and the epic resolved from it
C11_Witness ==
    /\ gis = "returned"
    /\ TargetHasParentNoEpic
    /\ ParentCalls[1].outcome = "ok"
    /\ epicField = Str(EpicKey)
    /\ structure.epic # Undefined

EpicCalls == CallsBy("epic")
EpicNameCalls == CallsBy("epicName")

\* the Epic Locator has run and the resolution of what it found is under way
\* or over
Located == epicField # Undefined /\ gis \in {"pending", "returned"}

\* the JQL of the name search, with the project of the target or, without
\* one, the prefix of the requested key
C12_NameJql ==
    LET project == OptProp(OptProp(Prop(issue, "fields"), "project"), "key")
    IN <<"project = \"">>
         \o (IF Truthy(project) THEN project.s ELSE C7_Prefix(IssueKey))
         \o <<"\" AND issuetype = Epic AND summary ~ \"">>
         \o Prop(epicField, "epicName").s \o <<"\"">>

\* C12: the shape of the located reference selects the path.  A string: one
\* fetch of the issue with that key, no search, and the fetched issue is the
\* epic.  An object with a key (even one that also carries a name): no call,
\* the object normalized is the epic.  An object with a name only: one search
\* with maxResults 1, no fetch, and its first issue, if any, is the epic.
\* Anything else: no call and no epic.
C12_PathByShape ==
    Located =>
        CASE epicField.t = "string" ->
                 /\ Len(EpicCalls) = 1 /\ Len(EpicNameCalls) = 0
                 /\ EpicCalls[1].api = "getIssue" /\ EpicCalls[1].arg = epicField.s
                 /\ structure.epic # Undefined <=> EpicCalls[1].outcome = "ok"
          [] epicField.t = "object" /\ Truthy(Prop(epicField, "key")) ->
                 /\ Len(EpicCalls) = 0 /\ Len(EpicNameCalls) = 0
                 /\ structure.epic = convertToRelatedIssue(epicField, Host)
          [] epicField.t = "object" /\ ~Truthy(Prop(epicField, "key"))
               /\ Truthy(Prop(epicField, "epicName")) ->
                 /\ Len(EpicCalls) = 0 /\ Len(EpicNameCalls) = 1
                 /\ EpicNameCalls[1].api = "search"
                 /\ EpicNameCalls[1].maxResults = 1
                 /\ EpicNameCalls[1].arg = C12_NameJql
                 /\ structure.epic # Undefined <=>
                       (EpicNameCalls[1].outcome = "ok" /\ EpicNameCalls[1].count > 0)
                 /\ structure.epic # Undefined => structure.epic.key = Str(EpicKey)
          [] OTHER ->
                 /\ Len(EpicCalls) = 0 /\ Len(EpicNameCalls) = 0
                 /\ structure.epic = Undefined

\* the parent carries both an epic name and an embedded epic: the name is
\* located first, searched once, and its first issue is the epic
C12_Witness ==
    /\ gis = "returned"
    /\ Truthy(Prop(epicField, "epicName"))
    /\ Truthy(parentIssueWithSubtasks)
    /\ Len(EpicNameCalls) = 1 /\ EpicNameCalls[1].count = 1
    /\ structure.epic # Undefined /\ structure.epic.key = Str(EpicKey)

\* the parent reference embedded in the fetched target
ParentReference == OptProp(Prop(issue, "fields"), "parent")

\* C13: after a failed re-fetch of the parent the invocation does not reject
\* and ends with a returned structure; the parent of the structure is the
\* embedded parent reference normalized, and the siblings are empty.
C13_ParentFetchNotFatal ==
    (Len(ParentCalls) > 0 /\ ParentCalls[1].outcome = "failed") =>
        /\ gis # "rejected" /\ thrown = Undefined
        /\ pc = "done" => gis = "returned"
        /\ structure.parent = convertToRelatedIssue(ParentReference, Host)
        /\ structure.parent.key = Str(ParentKey)
        /\ structure.siblings = <<>>

\* the re-fetch failed, the epic of the target was resolved all the same and
\* the structure was returned
C13_Witness ==
    /\ pc = "done" /\ gis = "returned"
    /\ Len(ParentCalls) = 1 /\ ParentCalls[1].outcome = "failed"
    /\ structure.parent # Undefined
    /\ structure.epic # Undefined

\* the subtasks list of the re-fetched parent (empty when it has none)
ParentSubtasks ==
    LET subtasks == OptProp(OptProp(parentIssueWithSubtasks, "fields"), "subtasks")
    IN IF Truthy(subtasks) /\ IsArray(subtasks) THEN subtasks.items ELSE <<>>

\* the entries of a list of raw issues whose key is not k, normalized, in
\* the order of the list
RECURSIVE C14_Others(_, _)
C14_Others(raw, k) ==
    IF raw = <<>> THEN <<>>
    ELSE (IF Prop(Head(raw), "key") = Str(k) THEN <<>>
          ELSE <<convertToRelatedIssue(Head(raw), Host)>>)
         \o C14_Others(Tail(raw), k)

RECURSIVE C15_Others(_, _)
C15_Others(raw, k) ==
    IF raw = <<>> THEN <<>>
    ELSE (IF Prop(Head(raw), "key") = k THEN <<>>
          ELSE <<convertToRelatedIssue(Head(raw), Host)>>)
         \o C15_Others(Tail(raw), k)

\* the story queries that were answered with at least one issue
C15_Hits == {i \in 1..Len(StoryCalls) : StoryCalls[i].count > 0}

\* C15: in a returned structure with an epic, epicStories is what the first
\* story query with at least one issue returned, less the entries whose key
\* is current.key, in the order returned; that query is the last one issued,
\* so nothing of another query is merged in.  Without such a query the
\* stories are empty.
C15_FirstNonEmptyResult ==
    (gis = "returned" /\ structure.epic # Undefined) =>
        IF C15_Hits = {} THEN structure.epicStories = <<>>
        ELSE LET first == CHOOSE i \in C15_Hits : \A j \in C15_Hits : i <= j
             IN /\ first = Len(StoryCalls)
                /\ C15_Hits = {first}
                /\ structure.epicStories =
                       C15_Others(StoryCalls[first].issues, structure.current.key)

\* the first candidate returned nothing, the second two issues, the current
\* one last: the other one alone is left
C15_Witness ==
    /\ gis = "returned"
    /\ Len(StoryCalls) = 2
    /\ StoryCalls[1].outcome = "ok" /\ StoryCalls[1].count = 0
    /\ StoryCalls[2].count = 2
    /\ Prop(StoryCalls[2].issues[2], "key") = structure.current.key
    /\ Len(structure.epicStories) = 1
    /\ structure.epicStories[1].key = Prop(StoryCalls[2].issues[1], "key")

\* the remote calls issued by getIssueStructure (all but the handler's own)
StructureCalls == SelectSeq(calls, LAMBDA c : c.by # "handler")

\* the subtask references of the fetched target
OwnSubtasks ==
    LET subtasks == OptProp(Prop(issue, "fields"), "subtasks")
    IN IF Truthy(subtasks) /\ IsArray(subtasks) THEN subtasks.items ELSE <<>>

\* the target was fetched with fields that hold neither a parent reference
\* nor a value in any of the five epic fields
TargetAlone ==
    /\ issue # Undefined
    /\ ~Nullish(Prop(issue, "fields"))
    /\ ~Truthy(OptProp(Prop(issue, "fields"), "parent"))
    /\ \A i \in 1..Len(C9_Names) : ~Truthy(Prop(Prop(issue, "fields"), C9_Names[i]))

C17_NoRetry ==
    /\ Len(CallsBy("target")) <= 1
    /\ Len(ParentCalls) <= 1
    /\ Len(EpicCalls) + Len(EpicNameCalls) <= 1
    /\ Len(StoryCalls) <= 4
    /\ \A i, j \in 1..Len(StructureCalls) :
          (StructureCalls[i].api = StructureCalls[j].api
             /\ StructureCalls[i].arg = StructureCalls[j].arg) => i = j
    /\ \A i \in 1..Len(StructureCalls) :
          StructureCalls[i].outcome = "pending" => i = Len(StructureCalls)
    /\ Len(StructureCalls) <= 7

\* seven calls, the re-fetch of the parent and three story queries failed
C17_Witness ==
    /\ gis = "returned"
    /\ Len(StructureCalls) = 7
    /\ ParentCalls[1].outcome = "failed"
    /\ Len(EpicCalls) = 1
    /\ \A i \in 1..3 : StoryCalls[i].outcome = "failed"

Formatted == fn = "formatIssueStructure" /\ result # Undefined
Positions(piece) == {i \in 1..Len(result.s) : result.s[i] = piece}
Emitted(piece) == Positions(piece) # {}
Pos(piece) == CHOOSE i \in Positions(piece) : \A j \in Positions(piece) : i <= j

\* the section headings in the order claimed
SectionOrder ==
    <<HeadEpic, HeadEpicStories, HeadParent, HeadCurrent, HeadSiblings, HeadSubtasks>>

\* where the section that starts with heading h ends: at the next heading,
\* or at the end of the text
SectionEnd(h) ==
    LET later == {i \in (Pos(h) + 1)..Len(result.s) :
                     \E k \in 1..Len(SectionOrder) : result.s[i] = SectionOrder[k]}
    IN IF later = {} THEN Len(result.s) + 1
       ELSE CHOOSE i \in later : \A j \in later : i <= j

\* the numbered entries written under heading h
EntryMark == ". **["
EntriesUnder(h) ==
    Cardinality({i \in (Pos(h) + 1)..(SectionEnd(h) - 1) : result.s[i] = EntryMark})

\* C19: the text starts with the title; no heading is written twice; the
\* headings written stand in the order epic, epic stories, parent, current
\* issue, siblings, subtasks; the epic stories stand inside the epic block,
\* before the rule that closes it; the heading of the current issue is in
\* every text.
C19_FixedOrder ==
    Formatted =>
        /\ result.s[1] = HeadTitle
        /\ \A k \in 1..Len(SectionOrder) : Cardinality(Positions(SectionOrder[k])) <= 1
        /\ \A k, l \in 1..Len(SectionOrder) :
              (k < l /\ Emitted(SectionOrder[k]) /\ Emitted(SectionOrder[l])) =>
                  Pos(SectionOrder[k]) < Pos(SectionOrder[l])
        /\ Emitted(HeadEpicStories) =>
              /\ Emitted(HeadEpic)
              /\ Pos(HeadEpic) < Pos(HeadEpicStories)
              /\ Pos(HeadEpicStories) < Pos(Rule)
              /\ \A i \in Positions(EntryMark) :
                    (Pos(HeadEpicStories) < i /\ i < SectionEnd(HeadEpicStories)) =>
                        i < Pos(Rule)
        /\ Emitted(HeadCurrent)

\* a structure with everything: all six headings are in the text
C19_Witness ==
    /\ Formatted
    /\ \A k \in 1..Len(SectionOrder) : Emitted(SectionOrder[k])
    /\ Len(arg.epicStories) = 2 /\ Len(arg.siblings) = 1 /\ Len(arg.subtasks) = 2

\* C20: a heading is written exactly when its data is there: epic and
\* parent when present, the three list headings when the list is not empty
\* (the epic stories only with an epic); under a list heading that is
\* written stand all the entries of its list, at least one.
C20_HeadingIffData ==
    Formatted =>
        /\ Emitted(HeadEpic) <=> arg.epic # Undefined
        /\ Emitted(HeadEpicStories) <=>
              (arg.epic # Undefined /\ Len(arg.epicStories) > 0)
        /\ Emitted(HeadParent) <=> arg.parent # Undefined
        /\ Emitted(HeadSiblings) <=> Len(arg.siblings) > 0
        /\ Emitted(HeadSubtasks) <=> Len(arg.subtasks) > 0
        /\ Emitted(HeadEpicStories) =>
              (EntriesUnder(HeadEpicStories) = Len(arg.epicStories)
                 /\ EntriesUnder(HeadEpicStories) > 0)
        /\ Emitted(HeadSiblings) =>
              (EntriesUnder(HeadSiblings) = Len(arg.siblings)
                 /\ EntriesUnder(HeadSiblings) > 0)
        /\ Emitted(HeadSubtasks) =>
              (EntriesUnder(HeadSubtasks) = Len(arg.subtasks)
                 /\ EntriesUnder(HeadSubtasks) > 0)

\* epic stories without an epic and no siblings: neither heading is in the
\* text, that of the subtasks is
C20_Witness ==
    /\ Formatted
    /\ arg.epic = Undefined /\ Len(arg.epicStories) > 0
    /\ arg.siblings = <<>> /\ Len(arg.subtasks) > 0
    /\ ~Emitted(HeadEpic) /\ ~Emitted(HeadEpicStories) /\ ~Emitted(HeadSiblings)
    /\ Emitted(HeadSubtasks) /\ Emitted(HeadCurrent)

\* the function `name` has returned
Applied(name) == fn = name /\ result # Undefined

\* the categories in the order of the checks, each with its icon and its
\* keywords, English and localized
C21_Categories ==
    << [icon |-> "icon:check", keywords |-> {KwDone, KwClosed, KwGotovo, KwZakryt}],
       [icon |-> "icon:cycle", keywords |-> {KwProgress, KwRabote, KwRazrabot}],
       [icon |-> "icon:eye", keywords |-> {KwReview, KwRevyu}],
       [icon |-> "icon:rocket", keywords |-> {KwRelease, KwReliz}],
       [icon |-> "icon:testtube", keywords |-> {KwTest, KwTestCyr}] >>

\* two letters that differ in case at most
C21_SameLetter(a, b) ==
    \/ a = b
    \/ \E k \in 1..Len(UpperCase) :
          {a, b} = {UpperCase[k], LowerCase[k]}

\* kw occurs in s, letter case ignored
C21_Occurs(kw, s) ==
    \E i \in 0..(Len(s) - Len(kw)) :
        \A j \in 1..Len(kw) : C21_SameLetter(s[i + j], kw[j])

C21_Matching(s) ==
    {c \in 1..Len(C21_Categories) :
        \E kw \in C21_Categories[c].keywords : C21_Occurs(kw, s)}

C21_SwapCase(s) ==
    [i \in 1..Len(s) |->
        IF \E k \in 1..Len(UpperCase) : UpperCase[k] = s[i]
        THEN LowerCase[CHOOSE k \in 1..Len(UpperCase) : UpperCase[k] = s[i]]
        ELSE IF \E k \in 1..Len(LowerCase) : LowerCase[k] = s[i]
        THEN UpperCase[CHOOSE k \in 1..Len(LowerCase) : LowerCase[k] = s[i]]
        ELSE s[i]]

\* C21: getStatusIcon returns the icon of the earliest category, in the
\* order done/closed, in progress, review, release, test, one of whose
\* keywords occurs in the status with letter case ignored, and the document
\* icon when there is none; the status with the case of every letter
\* swapped gets the same icon, and "In Progress" and its localized form get
\* the icon of the category in progress.
C21_FirstCategoryWins ==
    Applied("getStatusIcon") =>
        /\ IF C21_Matching(arg.s) = {} THEN result.value = "icon:document"
           ELSE LET first == CHOOSE c \in C21_Matching(arg.s) :
                                 \A d \in C21_Matching(arg.s) : c <= d
                IN result.value = C21_Categories[first].icon
        /\ getStatusIcon(Str(C21_SwapCase(arg.s))) = result.value
        /\ arg \in {Str(<<"I", "n", " ", "P", "r", "o", "g", "r", "e", "s", "s">>),
                     Str(<<"~v", " ">> \o KwRabote)} => result.value = "icon:cycle"

\* a status in upper case that names a test keyword before a done keyword:
\* the icon is that of done
C21_Witness ==
    /\ Applied("getStatusIcon")
    /\ arg.s = <<"T", "E", "S", "T", " ", "D", "O", "N", "E">>
    /\ result.value = "icon:check"

\* what the raw issue gives for summary, status name, type name and
\* priority name (undefined when the path to it breaks off)
C22_Given ==
    LET fields == Prop(arg, "fields")
    IN [summary |-> OptProp(fields, "summary"),
        status |-> OptProp(OptProp(fields, "status"), "name"),
        type |-> OptProp(OptProp(fields, "issuetype"), "name"),
        priority |-> OptProp(OptProp(fields, "priority"), "name")]

C22_Defaults ==
    [summary |-> DefaultSummary, status |-> DefaultStatus, type |-> DefaultType]

\* C22 as stated: every summary, status name and type name that the raw
\* issue gives (any string) is copied unchanged, a missing one is replaced
\* by its default, and the priority is the priority name or absent.
C22_PresentCopied ==
    Applied("convertToRelatedIssue") =>
        /\ \A f \in {"summary", "status", "type"} :
              result.value[f] = IF C22_Given[f].t = "string" THEN C22_Given[f]
                                ELSE C22_Defaults[f]
        /\ result.value.priority = C22_Given.priority

\* C22 amended: convertToRelatedIssue returns for every raw issue with a
\* key; a summary, status name or type name that is missing or is the empty
\* string is replaced by its default, a non-empty one is copied unchanged;
\* the key is copied and the priority is the priority name, absent when the
\* raw issue has none.
C22_DefaultsForMissingOrEmpty ==
    Applied("convertToRelatedIssue") =>
        /\ result.value.key = Prop(arg, "key")
        /\ \A f \in {"summary", "status", "type"} :
              result.value[f] =
                  IF C22_Given[f].t = "string" /\ Len(C22_Given[f].s) > 0
                  THEN C22_Given[f]
                  ELSE C22_Defaults[f]
        /\ result.value.priority =
              IF C22_Given.priority.t = "string" THEN C22_Given.priority ELSE Undefined

\* a raw issue without fields: the three defaults and no priority
C22_Witness ==
    /\ Applied("convertToRelatedIssue")
    /\ arg = RawBare(IssueKey)
    /\ result.value.summary = DefaultSummary
    /\ result.value.status = DefaultStatus
    /\ result.value.type = DefaultType
    /\ result.value.priority = Undefined

\* the length of the protocol prefix s begins with (0 when it has none)
C23_Leading(s) ==
    IF Len(s) >= 8 /\ SubSeq(s, 1, 8) = <<"h", "t", "t", "p", "s", ":", "/", "/">> THEN 8
    ELSE IF Len(s) >= 7 /\ SubSeq(s, 1, 7) = <<"h", "t", "t", "p", ":", "/", "/">> THEN 7
    ELSE 0

C23_Rest(s) == SubSeq(s, C23_Leading(s) + 1, Len(s))

\* C23: the URL is "https://", the host less one leading protocol prefix,
\* "/browse/" and the key.  For a host h without protocol prefix the hosts
\* h, "http://" h and "https://" h give the same URL, which begins with
\* "https://" once: what follows it is h and begins with no protocol.
C23_OnePrefixStripped ==
    Applied("createJiraUrl") =>
        LET h == C23_Rest(arg.host)
            url == <<"h", "t", "t", "p", "s", ":", "/", "/">> \o h
                     \o <<"/", "b", "r", "o", "w", "s", "e", "/">> \o arg.issueKey.s
        IN /\ result.value = url
           /\ C23_Leading(h) = 0 =>
                 /\ createJiraUrl(h, arg.issueKey) = url
                 /\ createJiraUrl(<<"h", "t", "t", "p", ":", "/", "/">> \o h,
                                  arg.issueKey) = url
                 /\ createJiraUrl(<<"h", "t", "t", "p", "s", ":", "/", "/">> \o h,
                                  arg.issueKey) = url
                 /\ C23_Leading(result.value) = 8
                 /\ C23_Leading(C23_Rest(result.value)) = 0

\* the host was configured with "http://"
C23_Witness ==
    /\ Applied("createJiraUrl")
    /\ arg.host = <<"h", "t", "t", "p", ":", "/", "/", "j", ".", "i", "o">>
    /\ result.value = <<"h", "t", "t", "p", "s", ":", "/", "/", "j", ".", "i", "o",
                        "/", "b", "r", "o", "w", "s", "e", "/">> \o IssueKey

\* a string value that is set and not empty
C24_NonEmpty(v) == v.t = "string" /\ Len(v.s) > 0

\* e-mail form: no white space, one "@" with something before it, and after
\* it a "." that has something on both sides
C24_EmailForm(s) ==
    LET ats == {i \in 1..Len(s) : s[i] = "@"}
    IN /\ Cardinality(ats) = 1
       /\ \A i \in 1..Len(s) : s[i] \notin {" ", "\t", "\n", "\r"}
       /\ \E i \in ats :
             /\ i > 1
             /\ \E j \in (i + 2)..(Len(s) - 1) : s[j] = "."

C24_Contains(s, sub) ==
    \E i \in 1..(Len(s) - Len(sub) + 1) : \A j \in 1..Len(sub) : s[i + j - 1] = sub[j]

\* the four checks in their order, each with the message of its failure
C24_Checks ==
    << [ok |-> C24_NonEmpty(arg.host), message |-> MsgNoHost],
       [ok |-> C24_NonEmpty(arg.username), message |-> MsgNoUsername],
       [ok |-> C24_NonEmpty(arg.password) \/ C24_NonEmpty(arg.apiToken),
        message |-> MsgNoCredentials],
       [ok |-> (C24_NonEmpty(arg.apiToken)
                  /\ C24_Contains(arg.host.s,
                                  <<".", "a", "t", "l", "a", "s", "s", "i", "a", "n",
                                    ".", "n", "e", "t">>))
                 => C24_EmailForm(arg.username.s),
        message |-> MsgNoEmail] >>

\* C24: validateJiraConfig returns null exactly when the four checks pass,
\* and otherwise the message of the first check that fails, in the order
\* host, username, credentials, e-mail form; the four messages differ.
C24_FirstFailingCheck ==
    Applied("validateJiraConfig") =>
        LET failing == {k \in 1..4 : ~C24_Checks[k].ok}
        IN /\ result.value = Null <=> failing = {}
           /\ failing # {} =>
                 result.value =
                     C24_Checks[CHOOSE k \in failing : \A l \in failing : k <= l].message
           /\ \A k, l \in 1..4 :
                 C24_Checks[k].message = C24_Checks[l].message => k = l

\* host, username and credentials all missing: the host is reported
C24_Witness ==
    /\ Applied("validateJiraConfig")
    /\ arg.host = Str(<<>>) /\ arg.username = Str(<<>>)
    /\ arg.password = Undefined /\ arg.apiToken = Undefined
    /\ result.value = MsgNoHost

\* the decimal numeral of n, digit by digit from the value
RECURSIVE C25_Numeral(_)
C25_Numeral(n) ==
    LET digit == <<"0", "1", "2", "3", "4", "5", "6", "7", "8", "9">>[(n % 10) + 1]
    IN IF n < 10 THEN <<digit>> ELSE Append(C25_Numeral(n \div 10), digit)

\* C25: with d = s div 28800, h = (s mod 28800) div 3600 and
\* m = (s mod 3600) div 60: h < 8, m < 60, the three account for s up to
\* less than a minute, and the text is the non-zero ones among "<d>d",
\* "<h>h", "<m>m" in this order with one space between, or "0m" when all
\* three are zero.
C25_WorkingDayDecomposition ==
    Applied("formatDuration") =>
        LET s == arg
            d == s \div 28800
            h == (s % 28800) \div 3600
            m == (s % 3600) \div 60
            whole == 28800 * d + 3600 * h + 60 * m
            dText == IF d > 0 THEN C25_Numeral(d) \o <<"d">> ELSE <<>>
            hText == IF h > 0 THEN C25_Numeral(h) \o <<"h">> ELSE <<>>
            mText == IF m > 0 THEN C25_Numeral(m) \o <<"m">> ELSE <<>>
            gap(a, b) == IF a # <<>> /\ b # <<>> THEN <<" ">> ELSE <<>>
        IN /\ h < 8 /\ m < 60
           /\ whole <= s /\ s < whole + 60
           /\ result.value =
                 IF d = 0 /\ h = 0 /\ m = 0 THEN <<"0", "m">>
                 ELSE dText \o gap(dText, hText \o mText) \o hText
                        \o gap(hText, mText) \o mText

\* nine and a half hours and 59 seconds: "1d 1h 30m"
C25_Witness ==
    /\ Applied("formatDuration")
    /\ arg = 34259
    /\ result.value = <<"1", "d", " ", "1", "h", " ", "3", "0", "m">>

\* C26: in every returned structure current, parent, subtasks and siblings
\* are what the answers to the fetch of the target and to the re-fetch of
\* the parent determine, whatever the epic fetch, the name search and the
\* story queries answered; a failed epic fetch or name search leaves the
\* epic absent and the stories empty, and story queries that all fail leave
\* the stories empty.
C26_EpicLeavesRestAlone ==
    gis = "returned" =>
        /\ structure.current = convertToRelatedIssue(issue, Host)
        /\ structure.parent = IF Truthy(ParentReference)
                              THEN convertToRelatedIssue(ParentReference, Host)
                              ELSE Undefined
        /\ Len(structure.subtasks) = Len(OwnSubtasks)
        /\ \A i \in 1..Len(OwnSubtasks) :
              structure.subtasks[i] = convertToRelatedIssue(OwnSubtasks[i], Host)
        /\ structure.siblings = IF Truthy(parentIssueWithSubtasks)
                                THEN C14_Others(ParentSubtasks, IssueKey)
                                ELSE <<>>
        /\ (\E i \in 1..Len(calls) :
                calls[i].by \in {"epic", "epicName"} /\ calls[i].outcome = "failed") =>
              (structure.epic = Undefined /\ structure.epicStories = <<>>)
        /\ (Len(StoryCalls) > 0
               /\ \A i \in 1..Len(StoryCalls) : StoryCalls[i].outcome = "failed") =>
              structure.epicStories = <<>>

\* parent, siblings and subtasks are all there although the fetch of the
\* epic failed
C26_Witness ==
    /\ gis = "returned"
    /\ Len(EpicCalls) = 1 /\ EpicCalls[1].outcome = "failed"
    /\ structure.parent # Undefined
    /\ Len(structure.siblings) > 0
    /\ Len(structure.subtasks) > 0

\* the place of a call in the order of the steps
C27_Rank(c) ==
    CASE c.by = "target" -> 1
      [] c.by = "parent" -> 2
      [] c.by \in {"epic", "epicName"} -> 3
      [] c.by = "story" -> 4

\* C27: of the calls of getIssueStructure only the last can be unanswered,
\* so each is issued after the one before has completed or failed; the
\* first is the fetch of the target and the steps follow in the order
\* target, parent, epic fetch or name search, story queries; the parent is
\* re-fetched exactly when the target has a parent reference, an epic fetch
\* or name search is issued only for a located reference, story queries
\* only for a resolved epic; and the siblings are filled only at the return,
\* when no call is pending and none is issued any more.
C27_OneAtATimeInOrder ==
    /\ \A i \in 1..Len(StructureCalls) :
          StructureCalls[i].outcome = "pending" => i = Len(StructureCalls)
    /\ Len(StructureCalls) > 0 => StructureCalls[1].by = "target"
    /\ \A i, j \in 1..Len(StructureCalls) :
          i < j => /\ C27_Rank(StructureCalls[i]) <= C27_Rank(StructureCalls[j])
                   /\ C27_Rank(StructureCalls[i]) = C27_Rank(StructureCalls[j]) =>
                         StructureCalls[i].by = "story"
    /\ issue # Undefined => (Len(ParentCalls) = 1 <=> Truthy(ParentReference))
    /\ Len(EpicCalls) + Len(EpicNameCalls) > 0 => Truthy(epicField)
    /\ Len(StoryCalls) > 0 => structure.epic # Undefined
    /\ (structure # Undefined /\ structure.siblings # <<>>) =>
          /\ gis = "returned"
          /\ \A i \in 1..Len(calls) : calls[i].outcome # "pending"

\* target, parent, epic and two story queries one after the other, then the
\* siblings
C27_Witness ==
    /\ gis = "returned"
    /\ Len(StructureCalls) = 5
    /\ StructureCalls[2].by = "parent" /\ StructureCalls[2].outcome = "ok"
    /\ StructureCalls[3].by = "epic" /\ StructureCalls[3].outcome = "ok"
    /\ StructureCalls[4].by = "story" /\ StructureCalls[5].by = "story"
    /\ Len(structure.siblings) > 0

\* the target was fetched and one of its own epic fields is populated
C28_LocatedOnTarget ==
    /\ issue # Undefined
    /\ ~Nullish(Prop(issue, "fields"))
    /\ \E i \in 1..Len(C9_Names) : Truthy(Prop(Prop(issue, "fields"), C9_Names[i]))

\* the located reference could not be resolved: its fetch or search failed,
\* the search found nothing, or it is an object with neither key nor name
C28_Unresolved ==
    \/ \E i \in 1..Len(calls) :
          /\ calls[i].by \in {"epic", "epicName"}
          /\ NoIssues(calls[i])
          /\ calls[i].by = "epic" => calls[i].outcome = "failed"
    \/ /\ epicField.t = "object"
       /\ ~Truthy(Prop(epicField, "key")) /\ ~Truthy(Prop(epicField, "epicName"))

\* C28: when the target's own fields hold an epic reference, the located
\* reference is always that one, whatever the re-fetched parent carries and
\* however the resolution ends; there is one attempt at most; and when that
\* reference cannot be resolved the structure is returned without epic and
\* without stories.
C28_NoEscalationAfterLocating ==
    C28_LocatedOnTarget =>
        /\ epicField # Undefined => epicField = findEpicField(Prop(issue, "fields"))
        /\ Len(EpicCalls) + Len(EpicNameCalls) <= 1
        /\ (gis = "returned" /\ C28_Unresolved) =>
              (structure.epic = Undefined /\ structure.epicStories = <<>>)

\* the target's epicLink is an object without key and name, the re-fetched
\* parent carries an epic key: no call for the epic, and no epic
C28_Witness ==
    /\ gis = "returned"
    /\ C28_LocatedOnTarget
    /\ epicField = EmptyObj
    /\ Truthy(parentIssueWithSubtasks)
    /\ findEpicField(Prop(parentIssueWithSubtasks, "fields")) = Str(EpicKey)
    /\ Len(EpicCalls) + Len(EpicNameCalls) = 0
    /\ structure.epic = Undefined

\* the response holds the formatted description / a heading of the structure
C29_HasDescription ==
    \E i \in 1..Len(ResponseText) : ResponseText[i] = "\nDescription:\n"
C29_HasStructure ==
    \E i \in 1..Len(ResponseText) : ResponseText[i] \in StructureHeads

\* C29: once getIssueStructure has been called the log starts with the
\* handler's own getIssue, answered, and a second getIssue for the same key;
\* a finished response holds the description exactly when it holds the
\* structure; and when the second fetch failed after the first succeeded the
\* response is the failure text alone.
C29_AllOrNothing ==
    /\ gis # "idle" =>
          /\ Len(calls) >= 2
          /\ calls[1].by = "handler" /\ calls[1].api = "getIssue"
          /\ calls[1].outcome = "ok"
          /\ calls[2].by = "target" /\ calls[2].api = "getIssue"
          /\ calls[2].arg = calls[1].arg
    /\ pc = "done" => (C29_HasDescription <=> C29_HasStructure)
    /\ (pc = "done" /\ gis = "returned" /\ ~formatIssueDescriptionThrows(hIssue)) =>
          (C29_HasDescription /\ C29_HasStructure)
    /\ (Len(calls) >= 2 /\ calls[2].outcome = "failed") =>
          /\ response = Content(FailedText(RemoteError))
          /\ ~C29_HasDescription /\ ~C29_HasStructure

\* the handler holds an issue with a description, the second fetch of the
\* same key failed, and the response carries neither part
C29_Witness ==
    /\ pc = "done"
    /\ Truthy(Prop(Prop(hIssue, "fields"), "description"))
    /\ Len(calls) = 2
    /\ calls[1].outcome = "ok" /\ calls[2].outcome = "failed"
    /\ calls[2].arg = calls[1].arg
    /\ gis = "rejected"
    /\ ~C29_HasDescription

\* C30: under a configuration that validateJiraConfig reports an error for,
\* the handler never issues a remote call, never enters getIssueStructure,
\* and finishes with the text "Configuration error: " followed by that
\* error; a remote call is in the log only when validation returned null.
C30_NoCallOnConfigError ==
    /\ validateJiraConfig(jiraConfig) # Null =>
          /\ calls = <<>> /\ gis = "idle" /\ hIssue = Undefined
          /\ pc \in {"validate", "done"}
          /\ pc = "done" =>
                /\ Len(response.content) = 1
                /\ response.content[1].type = "text"
                /\ ResponseText[1] = "Configuration error: "
                /\ SubSeq(ResponseText, 2, Len(ResponseText) - 1)
                     = validateJiraConfig(jiraConfig).s
    /\ calls # <<>> => validateJiraConfig(jiraConfig) = Null
    /\ (pc = "done" /\ validateJiraConfig(jiraConfig) = Null) =>
          ResponseText[1] # "Configuration error: "

\* an Atlassian Cloud host with an API token and a username that is no
\* email address: the handler has answered, no call was made
C30_Witness ==
    /\ pc = "done"
    /\ validateJiraConfig(jiraConfig) = MsgNoEmail
    /\ calls = <<>>
    /\ ResponseText[1] = "Configuration error: "

====
